---- MODULE Spec2Model ----
(***************************************************************************)
(* BlogGuru: product research, trust scoring and the per-product run loop. *)
(*                                                                         *)
(* Python dicts are functions from key strings to values (a missing key is *)
(* a key outside DOMAIN), lists are sequences.  sentiment_score is a float *)
(* in -1.0 .. 1.0; it is represented in hundredths, so 0.6 is 60 and 0.3   *)
(* is 30.  The collaborators (page fetch, web search, LLM completion) are  *)
(* inputs of the actions, drawn from small sets.                           *)
(***************************************************************************)
EXTENDS Integers, Sequences, FiniteSets, TLC

VARIABLES
    products,      \* run(): the list returned by _get_products
    dry_run,       \* run(): the dry_run argument
    threshold,     \* config['research']['trust_score_threshold']
    i,             \* run(): position of the for loop in products (1-based)
    pc,            \* position inside run / _process_product / research_product
    exc,           \* the exception in flight inside _process_product ("" = none)
    product_data,  \* research_product: result of _scrape_landing_page
    reviews,       \* research_product: result of _search_reviews
    scam_check,    \* research_product: result of _check_scam_reports
    evidence,      \* research_product: result of _find_evidence
    trust_score,   \* research_product: result of _calculate_trust_score
    research,      \* _process_product: the record returned by research_product
    results,       \* run(): the results list
    run_summary,   \* the file written by _save_results (<<>> before it is written)
    summary_saved, \* whether _save_results has written the run summary
    blacklist,     \* blogguru/data/blacklist.json
    errors_log,    \* blogguru/logs/errors.log
    generated,     \* calls of ContentGenerator.generate_content, in order
    content_files, \* files written by _save_content, in order
    research_files,\* products whose research file _save_research has written
    trace,         \* per finished product: what research_product returned or that it raised
    world,         \* what the environment does: config file, environment variables,
                   \* page fetch, web searches, LLM answers, of the code under study
    calls,         \* requests sent to a collaborator (web search, LLM host), in order
    exited,        \* the codes given to sys.exit (<<>> while the process runs)
    runs,          \* how many times main() has been started
    used_file,     \* bot: OUT_DIR/.used_sources.txt, a text file
    picked,        \* bot: what each call of find_new_links returned, in order
    parts,         \* bot, ollama: the chunks of the streamed answer read so far
    line_no,       \* bot, ollama: how many lines of the stream have been read
    tripped,       \* bot, ollama: whether the watchdog has cut the stream
    returned,      \* the value the call under study returned
    frame,         \* the local variables of the call under study, while it runs
    posts,         \* bot: the sources of the posts write_html has written, in order
    fetched        \* bot: the links main() has fetched, with what came of each

vars == <<products, dry_run, threshold, i, pc, exc, product_data, reviews,
          scam_check, evidence, trust_score, research, results, run_summary,
          summary_saved, blacklist, errors_log, generated, content_files,
          research_files, trace, world, calls, exited, runs, used_file, picked,
          parts, line_no, tripped, returned, frame, posts, fetched>>

(***************************************************************************)
(* Bounds                                                                  *)
(***************************************************************************)
SentimentMax == 100      \* sentiment_score ranges over -SentimentMax..SentimentMax hundredths
MaxRedFlags == 4         \* longest red_flags list given to the scorer
MaxEvidence == 4         \* longest evidence list given to the scorer
ThresholdMax == 101      \* thresholds 0..ThresholdMax are tried against every score
MaxProducts == 2         \* longest product list of a run
MaxClaims == 1           \* most claims an LLM answer carries in a run

Max(a, b) == IF a >= b THEN a ELSE b
Min(a, b) == IF a <= b THEN a ELSE b

EmptyDict == [k \in {} |-> <<>>]

\* dict.get(key, default)
Get(d, key, default) == IF key \in DOMAIN d THEN d[key] ELSE default

\* d1.update(d2)
Update(d1, d2) ==
    [k \in (DOMAIN d1) \cup (DOMAIN d2) |-> IF k \in DOMAIN d2 THEN d2[k] ELSE d1[k]]

\* Python truthiness of product_data.get('red_flags'): None and [] are falsy
Truthy(d, key) == key \in DOMAIN d /\ d[key] # <<>>

(***************************************************************************)
(* ProductResearcher._calculate_trust_score                                *)
(***************************************************************************)
SentHigh == 60    \* 0.6
SentLow == 30     \* 0.3

\* the running total in `score` just before the final clamp
RawScoreWrongSentiment(pd, rv, sc, ev) ==
    LET s0 == 50
        s1 == IF Len(ev) >= 3 THEN s0 + 15 ELSE IF Len(ev) >= 1 THEN s0 + 10 ELSE s0
        s2 == IF rv["sentiment_score"] >= SentHigh THEN s1 + 20
              ELSE IF rv["sentiment_score"] >= SentLow THEN s1 + 10 ELSE s1
        s3 == IF ~sc["scam_reports_found"] THEN s2 + 15 ELSE s2
        s4 == IF Truthy(pd, "red_flags") THEN s3 - Len(pd["red_flags"]) * 5 ELSE s3
        s5 == IF sc["scam_reports_found"] THEN s4 - 30 ELSE s4
        s6 == IF rv["fake_detected"] THEN s5 - 20 ELSE s5
        s7 == IF rv["sentiment_score"] < 0 THEN s6 - 20 ELSE s6
    IN  s7

RawScoreCappedFlags(pd, rv, sc, ev) ==
    LET s0 == 50
        s1 == IF Len(ev) >= 3 THEN s0 + 15 ELSE IF Len(ev) >= 1 THEN s0 + 10 ELSE s0
        s2 == IF rv["sentiment_score"] > SentHigh THEN s1 + 20
              ELSE IF rv["sentiment_score"] > SentLow THEN s1 + 10 ELSE s1
        s3 == IF ~sc["scam_reports_found"] THEN s2 + 15 ELSE s2
        s4 == IF Truthy(pd, "red_flags") THEN s3 - Min(Len(pd["red_flags"]), 3) * 5 ELSE s3
        s5 == IF sc["scam_reports_found"] THEN s4 - 30 ELSE s4
        s6 == IF rv["fake_detected"] THEN s5 - 20 ELSE s5
        s7 == IF rv["sentiment_score"] < 0 THEN s6 - 20 ELSE s6
    IN  s7

RawScoreNoScamPenalty(pd, rv, sc, ev) ==
    LET s0 == 50
        s1 == IF Len(ev) >= 3 THEN s0 + 15 ELSE IF Len(ev) >= 1 THEN s0 + 10 ELSE s0
        s2 == IF rv["sentiment_score"] > SentHigh THEN s1 + 20
              ELSE IF rv["sentiment_score"] > SentLow THEN s1 + 10 ELSE s1
        s3 == IF ~sc["scam_reports_found"] THEN s2 + 15 ELSE s2
        s4 == IF Truthy(pd, "red_flags") THEN s3 - Len(pd["red_flags"]) * 5 ELSE s3
        s6 == IF rv["fake_detected"] THEN s4 - 20 ELSE s4
        s7 == IF rv["sentiment_score"] < 0 THEN s6 - 20 ELSE s6
    IN  s7

RawScoreDoubleEvidenceBonus(pd, rv, sc, ev) ==
    LET s0 == 50
        s1 == IF Len(ev) >= 3 THEN s0 + 25 ELSE IF Len(ev) >= 1 THEN s0 + 10 ELSE s0
        s2 == IF rv["sentiment_score"] > SentHigh THEN s1 + 20
              ELSE IF rv["sentiment_score"] > SentLow THEN s1 + 10 ELSE s1
        s3 == IF ~sc["scam_reports_found"] THEN s2 + 15 ELSE s2
        s4 == IF Truthy(pd, "red_flags") THEN s3 - Len(pd["red_flags"]) * 5 ELSE s3
        s5 == IF sc["scam_reports_found"] THEN s4 - 30 ELSE s4
        s6 == IF rv["fake_detected"] THEN s5 - 20 ELSE s5
        s7 == IF rv["sentiment_score"] < 0 THEN s6 - 20 ELSE s6
    IN  s7

RawScore(pd, rv, sc, ev) ==
    LET s0 == 50
        s1 == IF Len(ev) >= 3 THEN s0 + 15 ELSE IF Len(ev) >= 1 THEN s0 + 10 ELSE s0
        s2 == IF rv["sentiment_score"] > SentHigh THEN s1 + 20
              ELSE IF rv["sentiment_score"] > SentLow THEN s1 + 10 ELSE s1
        s3 == IF ~sc["scam_reports_found"] THEN s2 + 15 ELSE s2
        s4 == IF Truthy(pd, "red_flags") THEN s3 - Len(pd["red_flags"]) * 5 ELSE s3
        s5 == IF sc["scam_reports_found"] THEN s4 - 30 ELSE s4
        s6 == IF rv["fake_detected"] THEN s5 - 20 ELSE s5
        s7 == IF rv["sentiment_score"] < 0 THEN s6 - 20 ELSE s6
    IN  s7

ClampNoFloor(score) == Min(100, score)

\* max(0, min(100, score))
Clamp(score) == Max(0, Min(100, score))

ScoreRemembersEarlierProducts(pd, rv, sc, ev) ==
    Clamp(RawScore(pd, rv, sc, ev) - 5 * Len(results))

_calculate_trust_score(pd, rv, sc, ev) == Clamp(RawScore(pd, rv, sc, ev))

(***************************************************************************)
(* ProductResearcher._generate_recommendation                              *)
(***************************************************************************)
HighlyRecommended == "Highly recommended - Strong evidence and positive reviews"
Recommended == "Recommended - Sufficient evidence and generally positive feedback"
Caution == "Proceed with caution - Mixed reviews or limited evidence"
NotRecommended == "Not recommended - Insufficient evidence or negative indicators"

RecommendationExclusiveBounds(score, approved) ==
    IF score > 80 THEN HighlyRecommended
    ELSE IF score > 60 THEN Recommended
    ELSE IF score > 40 THEN Caution
    ELSE NotRecommended

RecommendationFollowsApproval(score, approved) ==
    IF ~approved THEN NotRecommended
    ELSE IF score >= 80 THEN HighlyRecommended
    ELSE IF score >= 60 THEN Recommended
    ELSE Caution

_generate_recommendation(score, approved) ==
    IF score >= 80 THEN HighlyRecommended
    ELSE IF score >= 60 THEN Recommended
    ELSE IF score >= 40 THEN Caution
    ELSE NotRecommended

(***************************************************************************)
(* The collaborators' answers                                              *)
(***************************************************************************)
\* A completion text: whether json.loads accepts it and the dict it yields.
JsonText(value) == [parsable |-> TRUE, value |-> value]
Garbage == [parsable |-> FALSE, value |-> EmptyDict]

\* One call of openai.ChatCompletion.create: it raises, or it returns a text.
LLMFails == [failed |-> TRUE, text |-> Garbage]
LLMReturns(text) == [failed |-> FALSE, text |-> text]

\* claims are named by their numbers; a list of n claims is <<1, .., n>>
ClaimLists == {[k \in 1..n |-> k] : n \in 0..MaxClaims}
FlagLists == {<<>>, <<"fake urgency">>}

\* what the LLM may put in its landing-page answer: a complete dict, one
\* without red_flags and ingredients, one with claims only, an empty one
ScrapeDicts ==
    {[claims |-> c, benefits |-> <<>>, ingredients |-> <<>>, red_flags |-> f] :
        c \in ClaimLists, f \in FlagLists}
    \cup {[claims |-> c, benefits |-> <<>>] : c \in ClaimLists}
    \cup {[claims |-> <<>>], EmptyDict}

ScrapeAnswers ==
    {LLMFails, LLMReturns(Garbage)} \cup {LLMReturns(JsonText(d)) : d \in ScrapeDicts}

\* what the LLM may put in its review analysis: a glowing one, a damning one
\* that lacks the theme lists, an empty one
ReviewDicts ==
    {[sentiment_score |-> 70, fake_detected |-> FALSE, positive_themes |-> <<>>,
      negative_themes |-> <<>>],
     [sentiment_score |-> -50, fake_detected |-> TRUE],
     EmptyDict}

ReviewAnswers ==
    {LLMFails, LLMReturns(Garbage)} \cup {LLMReturns(JsonText(d)) : d \in ReviewDicts}

\* One call of _web_search: it raises, or it returns a list of results.
SearchFails == [failed |-> TRUE, results |-> <<>>]
SearchReturns(rs) == [failed |-> FALSE, results |-> rs]

\* ProductResearcher._call_openai
_call_openai(answer) ==
    IF answer.failed THEN JsonText(EmptyDict) ELSE answer.text

(***************************************************************************)
(* ProductResearcher._scrape_landing_page                                  *)
(***************************************************************************)
ScrapeDefault ==
    [claims |-> <<>>, benefits |-> <<>>, ingredients |-> <<>>,
     red_flags |-> <<"Unable to scrape landing page">>]

ScrapeReturnsEmpty(fetch_ok, answer) ==
    IF ~fetch_ok THEN ScrapeDefault
    ELSE LET result == _call_openai(answer)
         IN  IF result.parsable THEN result.value ELSE EmptyDict

_scrape_landing_page(fetch_ok, answer) ==
    IF ~fetch_ok THEN ScrapeDefault
    ELSE LET result == _call_openai(answer)
         IN  IF result.parsable THEN result.value ELSE ScrapeDefault
(***************************************************************************)
(* Web search results.  A result is a dict with url and title and possibly *)
(* a snippet; `page` is the text _extract_review_content gets from its url *)
(* ("" when that fetch fails or the page is empty).  Titles and snippets   *)
(* are spelled out as sequences of characters, because the scam check      *)
(* looks inside them; '' is <<>>.                                          *)
(***************************************************************************)
UpperCase == <<"A", "B", "C", "D", "E", "F", "G", "H", "I", "J", "K", "L", "M",
               "N", "O", "P", "Q", "R", "S", "T", "U", "V", "W", "X", "Y", "Z">>
LowerCase == <<"a", "b", "c", "d", "e", "f", "g", "h", "i", "j", "k", "l", "m",
               "n", "o", "p", "q", "r", "s", "t", "u", "v", "w", "x", "y", "z">>

LowerChar(c) ==
    IF \E k \in DOMAIN UpperCase : UpperCase[k] = c
    THEN LowerCase[CHOOSE k \in DOMAIN UpperCase : UpperCase[k] = c]
    ELSE c

\* str.lower()
Lower(s) == [k \in 1..Len(s) |-> LowerChar(s[k])]

\* `word in s` for two strings
Contains(word, s) ==
    \E k \in 1..(Len(s) - Len(word) + 1) : SubSeq(s, k, k + Len(word) - 1) = word

\* ['scam', 'fraud', 'fake', 'ripoff']
ScamWords ==
    <<<<"s", "c", "a", "m">>, <<"f", "r", "a", "u", "d">>, <<"f", "a", "k", "e">>,
      <<"r", "i", "p", "o", "f", "f">>>>

ScamTitle == <<"B", "r", "a", "n", "d", "X", " ", "S", "C", "A", "M">>
PlainTitle == <<"B", "r", "a", "n", "d", "X", " ", "r", "e", "v", "i", "e", "w">>

\* any(word in s.lower() for word in ['scam', 'fraud', 'fake', 'ripoff'])
HasScamWord(s) == \E w \in DOMAIN ScamWords : Contains(ScamWords[w], Lower(s))

ScamHit == [url |-> "https://complaints.example/brandx", title |-> ScamTitle, page |-> ""]
PlainResult ==
    [url |-> "https://reviews.example/brandx", title |-> PlainTitle,
     snippet |-> <<"o", "k">>, page |-> "review text"]
EmptyPage ==
    [url |-> "https://gone.example/brandx", title |-> PlainTitle,
     snippet |-> <<>>, page |-> ""]

RECURSIVE Flatten(_)
Flatten(seqs) == IF seqs = <<>> THEN <<>> ELSE Head(seqs) \o Flatten(Tail(seqs))

\* the sequences of length n over S
SeqsOfLen(S, n) == [1..n -> S]

(***************************************************************************)
(* ProductResearcher._search_reviews and _analyze_reviews_with_ai          *)
(***************************************************************************)
NumReviewQueries == 5

NeutralAnalysis ==
    [sentiment_score |-> 0, fake_detected |-> FALSE, positive |-> <<>>,
     negative |-> <<>>, neutral |-> <<>>]

_analyze_reviews_with_ai(answer) ==
    LET result == _call_openai(answer)
    IN  IF result.parsable
        THEN LET analysis == result.value
             IN  [sentiment_score |-> Get(analysis, "sentiment_score", 0),
                  fake_detected |-> Get(analysis, "fake_detected", FALSE),
                  positive |-> Get(analysis, "positive_themes", <<>>),
                  negative |-> Get(analysis, "negative_themes", <<>>),
                  neutral |-> <<>>]
        ELSE NeutralAnalysis

\* the texts one query adds to all_reviews: a failing search adds none
ReviewTexts(search) ==
    IF search.failed THEN <<>>
    ELSE LET pages == [k \in 1..Len(search.results) |-> search.results[k].page]
         IN  SelectSeq(pages, LAMBDA t : t # "")

SearchReviewsAlwaysAnalyzes(searches, answer) ==
    LET reviews0 == [positive |-> <<>>, negative |-> <<>>, neutral |-> <<>>,
                     fake_detected |-> FALSE, sentiment_score |-> 0]
    IN  Update(reviews0, _analyze_reviews_with_ai(answer))

\* searches[q] is the outcome of the q-th query's _web_search
_search_reviews(searches, answer) ==
    LET reviews0 == [positive |-> <<>>, negative |-> <<>>, neutral |-> <<>>,
                     fake_detected |-> FALSE, sentiment_score |-> 0]
        all_reviews == Flatten([q \in 1..Len(searches) |-> ReviewTexts(searches[q])])
    IN  IF all_reviews # <<>>
        THEN Update(reviews0, _analyze_reviews_with_ai(answer))
        ELSE reviews0

(***************************************************************************)
(* ProductResearcher._check_scam_reports                                   *)
(***************************************************************************)
NumScamQueries == 4

IndicatesScamCaseSensitive(result) ==
    \/ \E w \in DOMAIN ScamWords : Contains(ScamWords[w], result["title"])
    \/ \E w \in DOMAIN ScamWords : Contains(ScamWords[w], Get(result, "snippet", <<>>))

IndicatesScam(result) ==
    HasScamWord(result["title"]) \/ HasScamWord(Get(result, "snippet", <<>>))

\* the sources one query adds: a failing search adds none
ScamSources(search) ==
    IF search.failed THEN <<>>
    ELSE LET hits == SelectSeq(search.results, IndicatesScam)
         IN  [k \in 1..Len(hits) |-> [url |-> hits[k]["url"], title |-> hits[k]["title"]]]

_check_scam_reports(searches) ==
    LET sources == Flatten([q \in 1..Len(searches) |-> ScamSources(searches[q])])
    IN  [scam_reports_found |-> sources # <<>>, bbb_rating |-> "None",
         complaint_count |-> 0, sources |-> sources]

(***************************************************************************)
(* ProductResearcher._find_evidence                                        *)
(***************************************************************************)
\* config['research']['evidence_sources']
EvidenceSources == <<"pubmed.ncbi.nlm.nih.gov">>

\* the records one (claim, source) query adds: a failing search adds none
EvidenceRecords(claim, source, search) ==
    IF search.failed THEN <<>>
    ELSE [k \in 1..Len(search.results) |->
            [claim |-> claim, source |-> source,
             title |-> search.results[k]["title"],
             url |-> search.results[k]["url"],
             snippet |-> Get(search.results[k], "snippet", <<>>)]]

FindEvidenceAllClaims(claims, sources, searches) ==
    LET nc == Len(claims)
        ns == Min(3, Len(sources))
    IN  Flatten([c \in 1..nc |->
            Flatten([s \in 1..ns |->
                EvidenceRecords(claims[c], sources[s], searches[c][s])])])

\* searches[c][s] is the outcome of the query for claims[c] and sources[s]
_find_evidence(claims, sources, searches) ==
    LET nc == Min(3, Len(claims))
        ns == Min(3, Len(sources))
    IN  Flatten([c \in 1..nc |->
            Flatten([s \in 1..ns |->
                EvidenceRecords(claims[c], sources[s], searches[c][s])])])
(***************************************************************************)
(* The inputs of a run                                                     *)
(***************************************************************************)
ProductNames == <<"KetoBurn", "SleepWell", "JointFlex", "FocusMax">>

\* the lists _get_products may return: the first n configured products
ProductLists ==
    {[k \in 1..n |-> [name |-> ProductNames[k]]] : n \in 0..MaxProducts}

Thresholds == {60}

ReviewSearchOutcomes ==
    {SearchFails, SearchReturns(<<>>), SearchReturns(<<EmptyPage>>),
     SearchReturns(<<PlainResult>>)}

\* what _search_reviews can return, over every outcome of its five searches
\* and every answer of the LLM
ReviewOutcomes ==
    {_search_reviews(searches, answer) :
        searches \in SeqsOfLen(ReviewSearchOutcomes, NumReviewQueries),
        answer \in ReviewAnswers}

ScamSearchOutcomes ==
    {SearchFails, SearchReturns(<<>>), SearchReturns(<<ScamHit>>),
     SearchReturns(<<PlainResult>>)}

\* what _check_scam_reports can return, over every outcome of its four searches
ScamOutcomes ==
    {_check_scam_reports(searches) :
        searches \in SeqsOfLen(ScamSearchOutcomes, NumScamQueries)}

EvidenceSearchOutcomes ==
    {SearchFails, SearchReturns(<<>>), SearchReturns(<<PlainResult>>)}

NoReviews == NeutralAnalysis
NoScamCheck == _check_scam_reports(<<>>)

(***************************************************************************)
(* BlogGuru.run: start                                                     *)
(***************************************************************************)
\* nothing processed and nothing written yet
Fresh ==
    /\ i = 1
    /\ exc = ""
    /\ research = EmptyDict
    /\ results = <<>>
    /\ run_summary = <<>>
    /\ summary_saved = FALSE
    /\ blacklist = <<>>
    /\ errors_log = <<>>
    /\ generated = <<>>
    /\ content_files = <<>>
    /\ research_files = {}
    /\ trace = <<>>

\* what main() finds when it starts: whether the config file loads, what
\* system.enabled says, whether the API key variable is set
Environments == [config_loads : BOOLEAN, enabled : BOOLEAN, api_key : BOOLEAN]
Ready == [config_loads |-> TRUE, enabled |-> TRUE, api_key |-> TRUE]

\* the blog bot has not run
BotIdle ==
    /\ used_file = <<>>
    /\ picked = <<>>
    /\ parts = <<>>
    /\ line_no = 0
    /\ tripped = FALSE
    /\ returned = <<>>
    /\ frame = EmptyDict
    /\ posts = <<>>
    /\ fetched = <<>>

\* BlogGuru has been constructed and run() is about to be or has been entered
Constructed ==
    /\ world = Ready
    /\ calls = <<>>
    /\ exited = <<>>
    /\ runs = 1
    /\ BotIdle

Init ==
    /\ products \in ProductLists
    /\ dry_run \in BOOLEAN
    /\ threshold \in Thresholds
    /\ world \in Environments
    /\ calls = <<>>
    /\ exited = <<>>
    /\ runs = 1
    /\ BotIdle
    /\ pc = "init"
    /\ product_data = EmptyDict
    /\ reviews = NoReviews
    /\ scam_check = NoScamCheck
    /\ evidence = <<>>
    /\ trust_score = 0
    /\ Fresh

config == <<products, dry_run, threshold>>
feed == <<frame, posts, fetched>>
bot == <<used_file, picked, parts, line_no, tripped, returned, feed>>
outside == <<world, calls, exited, runs, bot>>
locals == <<product_data, reviews, scam_check, evidence, trust_score>>
files == <<run_summary, summary_saved, blacklist, errors_log, generated, content_files,
           research_files>>

(***************************************************************************)
(* main(): BlogGuru.__init__, _load_config and ProductResearcher.__init__  *)
(***************************************************************************)
MissingKeyIgnored(api_key) == FALSE

\* ProductResearcher.__init__, line 18: `if not self.openai_key`
MissingKey(api_key) == ~api_key

KeyNotFound == "ValueError: OpenAI API key not found in environment variable"

\* sys.exit(1) when the config does not load, sys.exit(0) when the system is
\* disabled, ValueError out of main() when the key is missing, else run()
Construct ==
    /\ pc = "init"
    /\ IF ~world.config_loads
       THEN exited' = <<1>> /\ pc' = "exited" /\ exc' = exc
       ELSE IF ~world.enabled
       THEN exited' = <<0>> /\ pc' = "exited" /\ exc' = exc
       ELSE IF MissingKey(world.api_key)
       THEN exc' = KeyNotFound /\ pc' = "aborted" /\ exited' = exited
       ELSE pc' = "start" /\ exc' = exc /\ exited' = exited
    /\ UNCHANGED <<config, i, locals, research, results, files, trace, world, calls,
                   runs, bot>>

\* run(): `if not products: return`, else enter the loop
Start ==
    /\ pc = "start"
    /\ pc' = IF products = <<>> THEN "done" ELSE "scrape"
    /\ UNCHANGED <<outside, config, i, exc, locals, research, results, files, trace>>

(***************************************************************************)
(* ProductResearcher.research_product, one action per step                 *)
(***************************************************************************)
Scrape ==
    /\ pc = "scrape"
    /\ \E fetch_ok \in BOOLEAN, answer \in ScrapeAnswers :
          product_data' = _scrape_landing_page(fetch_ok, answer)
    /\ pc' = "reviews"
    /\ UNCHANGED <<outside, config, i, exc, reviews, scam_check, evidence, trust_score,
                   research, results, files, trace>>

SearchReviews ==
    /\ pc = "reviews"
    /\ \E r \in ReviewOutcomes : reviews' = r
    /\ pc' = "scam"
    /\ UNCHANGED <<outside, config, i, exc, product_data, scam_check, evidence, trust_score,
                   research, results, files, trace>>

CheckScamReports ==
    /\ pc = "scam"
    /\ \E sc \in ScamOutcomes : scam_check' = sc
    /\ pc' = "evidence"
    /\ UNCHANGED <<outside, config, i, exc, product_data, reviews, evidence, trust_score,
                   research, results, files, trace>>

\* an exception leaves research_product and _process_product: their locals are gone
Raise(error) ==
    /\ exc' = error
    /\ pc' = "raised"
    /\ product_data' = EmptyDict
    /\ reviews' = NoReviews
    /\ scam_check' = NoScamCheck
    /\ evidence' = <<>>
    /\ trust_score' = 0
    /\ research' = EmptyDict

\* line 51: product_data['claims'] is evaluated before _find_evidence is called
FindEvidence ==
    /\ pc = "evidence"
    /\ IF "claims" \notin DOMAIN product_data
       THEN Raise("KeyError: 'claims'")
       ELSE /\ \E searches \in
                    SeqsOfLen(SeqsOfLen(EvidenceSearchOutcomes,
                                        Min(3, Len(EvidenceSources))),
                              Min(3, Len(product_data["claims"]))) :
                  evidence' = _find_evidence(product_data["claims"], EvidenceSources,
                                             searches)
            /\ pc' = "score"
            /\ UNCHANGED <<exc, product_data, reviews, scam_check, trust_score, research>>
    /\ UNCHANGED <<outside, config, i, results, files, trace>>

Score ==
    /\ pc = "score"
    /\ trust_score' = _calculate_trust_score(product_data, reviews, scam_check, evidence)
    /\ pc' = "decide"
    /\ UNCHANGED <<outside, config, i, exc, product_data, reviews, scam_check, evidence,
                   research, results, files, trace>>

ApprovedStrict(score, limit) == score > limit

\* line 57
Approved(score, limit) == score >= limit

\* lines 57-76; researched_at, a clock reading, is left out of the record
Decide ==
    /\ pc = "decide"
    /\ IF "benefits" \notin DOMAIN product_data
       THEN Raise("KeyError: 'benefits'")
       ELSE LET approved == Approved(trust_score, threshold)
            IN  /\ research' =
                      [product_name |-> products[i]["name"],
                       trust_score |-> trust_score,
                       approved |-> approved,
                       claims |-> product_data["claims"],
                       benefits |-> product_data["benefits"],
                       ingredients |-> Get(product_data, "ingredients", <<>>),
                       evidence |-> evidence,
                       reviews |-> reviews,
                       scam_check |-> scam_check,
                       red_flags |-> Get(product_data, "red_flags", <<>>),
                       recommendation |-> _generate_recommendation(trust_score, approved)]
                /\ pc' = "process"
                /\ product_data' = EmptyDict
                /\ reviews' = NoReviews
                /\ scam_check' = NoScamCheck
                /\ evidence' = <<>>
                /\ trust_score' = 0
                /\ exc' = exc
    /\ UNCHANGED <<outside, config, i, results, files, trace>>
(***************************************************************************)
(* BlogGuru._process_product after research_product has returned, and the  *)
(* rest of the loop body of run(): results.append(result)                  *)
(***************************************************************************)
\* the for loop moves on to the next product, or leaves the loop
NextProduct ==
    /\ i' = i + 1
    /\ pc' = IF i + 1 > Len(products) THEN "summary" ELSE "scrape"
    /\ research' = EmptyDict
    /\ trace' = Append(trace,
                       [product |-> products[i]["name"],
                        raised |-> pc = "raised",
                        trust_score |-> Get(research, "trust_score", 0),
                        approved |-> Get(research, "approved", FALSE),
                        recommendation |-> Get(research, "recommendation", "")])

\* _save_research
SaveResearch == research_files' = research_files \cup {products[i]["name"]}

BlacklistOverwrites(list, product_name, rs) ==
    <<[product |-> product_name,
       trust_score |-> rs["trust_score"],
       reason |-> rs["recommendation"]]>>

\* _add_to_blacklist; rejected_at, a clock reading, is left out of the entry
_add_to_blacklist(list, product_name, rs) ==
    Append(list, [product |-> product_name,
                  trust_score |-> rs["trust_score"],
                  reason |-> rs["recommendation"]])

\* lines 114-132
Reject ==
    /\ pc = "process"
    /\ ~research["approved"]
    /\ SaveResearch
    /\ blacklist' = _add_to_blacklist(blacklist, products[i]["name"], research)
    /\ results' = Append(results,
                         [product |-> products[i]["name"],
                          status |-> "rejected",
                          trust_score |-> research["trust_score"],
                          reason |-> research["recommendation"]])
    /\ NextProduct
    /\ UNCHANGED <<outside, config, exc, locals, run_summary, summary_saved, errors_log,
                   generated, content_files>>

SkipsContentNever(flag) == FALSE

\* line 137
SkipsContent(flag) == flag

DryRunStatusCompleted == "completed"

\* line 141
DryRunStatus == "approved"

\* lines 114-144
DryRunStop ==
    /\ pc = "process"
    /\ research["approved"]
    /\ SkipsContent(dry_run)
    /\ SaveResearch
    /\ results' = Append(results,
                         [product |-> products[i]["name"],
                          status |-> DryRunStatus,
                          trust_score |-> research["trust_score"],
                          content_generated |-> FALSE])
    /\ NextProduct
    /\ UNCHANGED <<outside, config, exc, locals, run_summary, summary_saved, blacklist,
                   errors_log, generated, content_files>>

\* lines 114-161; output_path and word_count, taken from the generated
\* content, are left out of the entry
GenerateAndSave ==
    /\ pc = "process"
    /\ research["approved"]
    /\ ~SkipsContent(dry_run)
    /\ SaveResearch
    /\ generated' = Append(generated, products[i]["name"])
    /\ content_files' = Append(content_files, products[i]["name"])
    /\ results' = Append(results,
                         [product |-> products[i]["name"],
                          status |-> "completed",
                          trust_score |-> research["trust_score"],
                          content_generated |-> TRUE])
    /\ NextProduct
    /\ UNCHANGED <<outside, config, exc, locals, run_summary, summary_saved, blacklist,
                   errors_log>>

\* _log_error; the timestamp, a clock reading, is left out of the line
_log_error(log, product_name, error) ==
    Append(log, [product |-> product_name, error |-> error])

CatchAndStop ==
    /\ pc = "raised"
    /\ errors_log' = _log_error(errors_log, products[i]["name"], exc)
    /\ exc' = ""
    /\ i' = i + 1
    /\ pc' = "summary"
    /\ research' = EmptyDict
    /\ trace' = Append(trace,
                       [product |-> products[i]["name"], raised |-> TRUE,
                        trust_score |-> 0, approved |-> FALSE, recommendation |-> ""])
    /\ UNCHANGED <<outside, config, locals, results, run_summary, summary_saved, blacklist,
                   generated, content_files, research_files>>

\* run(), lines 84-86: the except clause of the loop body
Catch ==
    /\ pc = "raised"
    /\ errors_log' = _log_error(errors_log, products[i]["name"], exc)
    /\ exc' = ""
    /\ NextProduct
    /\ UNCHANGED <<outside, config, locals, results, run_summary, summary_saved, blacklist,
                   generated, content_files, research_files>>

\* run(), lines 89-92: _print_summary and _save_results
Finish ==
    /\ pc = "summary"
    /\ run_summary' = results
    /\ summary_saved' = TRUE
    /\ pc' = "done"
    /\ UNCHANGED <<outside, config, i, exc, locals, research, results, blacklist, errors_log,
                   generated, content_files, research_files, trace>>

Next ==
    \/ Construct
    \/ Start
    \/ Scrape
    \/ SearchReviews
    \/ CheckScamReports
    \/ FindEvidence
    \/ Score
    \/ Decide
    \/ Reject
    \/ DryRunStop
    \/ GenerateAndSave
    \/ Catch
    \/ Finish

Spec == Init /\ [][Next]_vars
(***************************************************************************)
(* The scorer on its own: _calculate_trust_score applied to every input    *)
(* within the bounds                                                       *)
(***************************************************************************)
ScorerProductData ==
    {[claims |-> <<>>, benefits |-> <<>>, red_flags |-> [k \in 1..n |-> "red flag"]] :
        n \in 0..MaxRedFlags}
    \cup {[claims |-> <<>>, benefits |-> <<>>]}

ScorerReviews ==
    {[NeutralAnalysis EXCEPT !["sentiment_score"] = s, !["fake_detected"] = f] :
        s \in (-SentimentMax)..SentimentMax, f \in BOOLEAN}

ScorerScamChecks ==
    {_check_scam_reports(<<SearchReturns(<<>>)>>),
     _check_scam_reports(<<SearchReturns(<<ScamHit>>)>>)}

ScorerEvidence ==
    {[k \in 1..n |-> [claim |-> 1, source |-> EvidenceSources[1],
                      title |-> PlainTitle, url |-> "https://pubmed.example/1",
                      snippet |-> <<>>]] : n \in 0..MaxEvidence}

InitScore ==
    /\ products = <<[name |-> ProductNames[1]]>>
    /\ dry_run = FALSE
    /\ threshold \in Thresholds
    /\ pc = "score"
    /\ product_data \in ScorerProductData
    /\ reviews \in ScorerReviews
    /\ scam_check \in ScorerScamChecks
    /\ evidence \in ScorerEvidence
    /\ trust_score = 0
    /\ Fresh
    /\ Constructed

NextScore == Score

SpecScore == InitScore /\ [][NextScore]_vars

(***************************************************************************)
(* The decision and the recommendation on their own: lines 57-72 of        *)
(* research_product applied to every score and every threshold             *)
(***************************************************************************)
ScoreMax == 100

InitDecide ==
    /\ products = <<[name |-> ProductNames[1]]>>
    /\ dry_run = FALSE
    /\ threshold \in 0..ThresholdMax
    /\ pc = "decide"
    /\ product_data \in {[claims |-> <<>>, benefits |-> <<>>], [claims |-> <<>>]}
    /\ reviews = NoReviews
    /\ scam_check = NoScamCheck
    /\ evidence = <<>>
    /\ trust_score \in 0..ScoreMax
    /\ Fresh
    /\ Constructed

NextDecide == Decide

SpecDecide == InitDecide /\ [][NextDecide]_vars
(***************************************************************************)
(* Each signal channel on its own: one of _scrape_landing_page,            *)
(* _search_reviews, _check_scam_reports and _find_evidence is applied once *)
(* to every behaviour of its collaborators within the bounds.  `world`     *)
(* holds that behaviour, and world.step says which function is applied.    *)
(***************************************************************************)
ScrapeWorlds ==
    {[step |-> "scrape", fetch_ok |-> f, answer |-> a] :
        f \in BOOLEAN, a \in ScrapeAnswers}

ReviewWorlds ==
    {[step |-> "reviews", searches |-> ss, answer |-> a] :
        ss \in SeqsOfLen(ReviewSearchOutcomes, NumReviewQueries), a \in ReviewAnswers}

\* results a scam query may return: the word in upper case in the title and
\* no snippet, the word capitalised in the snippet only, the word inside a
\* longer word, two words that only together spell a word of the lexicon
UpperCaseScam == [url |-> "https://a.example/1", title |-> <<"S", "C", "A", "M", "!">>]
FraudInSnippet ==
    [url |-> "https://b.example/2", title |-> PlainTitle,
     snippet |-> <<"a", " ", "F", "r", "a", "u", "d">>]
FakeInsideWord ==
    [url |-> "https://c.example/3", title |-> <<"u", "n", "f", "a", "k", "e", "d">>,
     snippet |-> <<>>]
RipOffTwoWords ==
    [url |-> "https://d.example/4", title |-> <<"r", "i", "p", " ", "o", "f", "f">>,
     snippet |-> <<"s", "c", "a", "n">>]

ScamReportOutcomes ==
    {SearchFails, SearchReturns(<<>>), SearchReturns(<<UpperCaseScam>>),
     SearchReturns(<<PlainResult, FraudInSnippet>>), SearchReturns(<<RipOffTwoWords>>),
     SearchReturns(<<FakeInsideWord, UpperCaseScam>>)}

ScamWorlds ==
    {[step |-> "scam", searches |-> ss] :
        ss \in SeqsOfLen(ScamReportOutcomes, NumScamQueries)}

MaxEvidenceClaims == 4     \* longest claims list given to _find_evidence
MaxTrustedSources == 4     \* longest config['research']['evidence_sources']

TrustedSourceNames ==
    <<"pubmed.ncbi.nlm.nih.gov", "nih.gov", "mayoclinic.org", "health.harvard.edu",
      "cochrane.org", "who.int">>

\* what the search for one source returns when it does not fail
SourceOutcomes ==
    {SearchFails, SearchReturns(<<>>), SearchReturns(<<PlainResult>>),
     SearchReturns(<<PlainResult, ScamHit>>)}

\* the search for (claim c, source s) fails for the claims in failing, and
\* otherwise does what by_source says for s
EvidenceSearches(nc, ns, failing, by_source) ==
    [c \in 1..nc |-> [s \in 1..ns |-> IF c \in failing THEN SearchFails ELSE by_source[s]]]

\* whether w is a behaviour of the searches of _find_evidence for some list
\* of claims and some list of configured sources
EvidenceWorld(w) ==
    \E nc \in 0..MaxEvidenceClaims, ns \in 0..MaxTrustedSources :
        \E failing \in SUBSET (1..nc), by_source \in SeqsOfLen(SourceOutcomes, ns) :
            w = [step |-> "evidence",
                 claims |-> [k \in 1..nc |-> k],
                 sources |-> SubSeq(TrustedSourceNames, 1, ns),
                 searches |-> EvidenceSearches(nc, ns, failing, by_source)]

InitChannels ==
    /\ \/ world \in ScrapeWorlds
       \/ world \in ReviewWorlds
       \/ world \in ScamWorlds
       \/ EvidenceWorld(world)
    /\ pc = world.step
    /\ products = <<[name |-> ProductNames[1]]>>
    /\ dry_run = FALSE
    /\ threshold \in Thresholds
    /\ product_data = EmptyDict
    /\ reviews = NoReviews
    /\ scam_check = NoScamCheck
    /\ evidence = <<>>
    /\ trust_score = 0
    /\ Fresh
    /\ calls = <<>>
    /\ exited = <<>>
    /\ runs = 1
    /\ BotIdle

ScrapeLandingPage ==
    /\ pc = "scrape"
    /\ product_data' = _scrape_landing_page(world.fetch_ok, world.answer)
    /\ pc' = "returned"
    /\ UNCHANGED <<outside, config, i, exc, reviews, scam_check, evidence, trust_score,
                   research, results, files, trace>>

SearchReviewsOnce ==
    /\ pc = "reviews"
    /\ reviews' = _search_reviews(world.searches, world.answer)
    /\ pc' = "returned"
    /\ UNCHANGED <<outside, config, i, exc, product_data, scam_check, evidence,
                   trust_score, research, results, files, trace>>

CheckScamReportsOnce ==
    /\ pc = "scam"
    /\ scam_check' = _check_scam_reports(world.searches)
    /\ pc' = "returned"
    /\ UNCHANGED <<outside, config, i, exc, product_data, reviews, evidence,
                   trust_score, research, results, files, trace>>

\* line 207: num_results=2
EvidenceNumResults == 2

\* the _web_search calls of _find_evidence, in order; the keywords and the
\* cut of the claim at 50 characters are left out of the query
EvidenceQueries(claims, sources) ==
    Flatten([c \in 1..Min(3, Len(claims)) |->
        [s \in 1..Min(3, Len(sources)) |->
            [site |-> sources[s], claim |-> claims[c],
             num_results |-> EvidenceNumResults]]])

FindEvidenceOnce ==
    /\ pc = "evidence"
    /\ evidence' = _find_evidence(world.claims, world.sources, world.searches)
    /\ calls' = EvidenceQueries(world.claims, world.sources)
    /\ pc' = "returned"
    /\ UNCHANGED <<world, exited, runs, bot, config, i, exc, product_data, reviews,
                   scam_check, trust_score, research, results, files, trace>>

NextChannels ==
    \/ ScrapeLandingPage
    \/ SearchReviewsOnce
    \/ CheckScamReportsOnce
    \/ FindEvidenceOnce

SpecChannels == InitChannels /\ [][NextChannels]_vars

(***************************************************************************)
(* Several runs of main() one after the other over the same files, with    *)
(* research_product taken as a whole: it returns a record or it raises     *)
(***************************************************************************)
MaxRuns == 2             \* how many times main() is started

\* the trust scores research_product comes back with
ResearchScores == {20, 85}

\* research_product, lines 57-76, for a product whose channels gave nothing
\* but the score
ResearchRecord(name, score) ==
    LET approved == Approved(score, threshold)
    IN  [product_name |-> name, trust_score |-> score, approved |-> approved,
         claims |-> <<>>, benefits |-> <<>>, ingredients |-> <<>>, evidence |-> <<>>,
         reviews |-> NoReviews, scam_check |-> NoScamCheck, red_flags |-> <<>>,
         recommendation |-> _generate_recommendation(score, approved)]

InitRuns ==
    /\ products \in ProductLists
    /\ dry_run \in BOOLEAN
    /\ threshold \in Thresholds
    /\ pc = "start"
    /\ product_data = EmptyDict
    /\ reviews = NoReviews
    /\ scam_check = NoScamCheck
    /\ evidence = <<>>
    /\ trust_score = 0
    /\ Fresh
    /\ Constructed

\* _process_product, line 114: research_product returns or raises
Research ==
    /\ pc = "scrape"
    /\ \/ /\ \E score \in ResearchScores :
                research' = ResearchRecord(products[i]["name"], score)
          /\ pc' = "process"
          /\ UNCHANGED <<exc, locals>>
       \/ Raise("KeyError: 'claims'")
    /\ UNCHANGED <<outside, config, i, results, files, trace>>

\* main() is started again: the files of the earlier runs are there, the
\* summary of this run goes to a file of its own
RunAgain ==
    /\ pc = "done"
    /\ runs < MaxRuns
    /\ runs' = runs + 1
    /\ dry_run' \in BOOLEAN
    /\ pc' = "start"
    /\ i' = 1
    /\ results' = <<>>
    /\ run_summary' = <<>>
    /\ summary_saved' = FALSE
    /\ UNCHANGED <<world, calls, exited, bot, products, threshold, exc, locals, research,
                   blacklist, errors_log, generated, content_files, research_files,
                   trace>>

NextRuns ==
    \/ Start
    \/ Research
    \/ Reject
    \/ DryRunStop
    \/ GenerateAndSave
    \/ Catch
    \/ Finish
    \/ RunAgain

SpecRuns == InitRuns /\ [][NextRuns]_vars

(***************************************************************************)
(* bot/blogbot.py: ollama(prompt), called with stream_mode=True as main()  *)
(* does.  A text is the sequence of its chunks; " " is a chunk of white    *)
(* space and "" an empty chunk.                                            *)
(***************************************************************************)
MaxLines == 3            \* most lines the LLM host streams before it ends or stalls

\* "".join(parts)
Join(chunks) == SelectSeq(chunks, LAMBDA c : c # "")

RECURSIVE LStrip(_)
LStrip(text) == IF text # <<>> /\ Head(text) = " " THEN LStrip(Tail(text)) ELSE text

RECURSIVE RStrip(_)
RStrip(text) ==
    IF text # <<>> /\ text[Len(text)] = " "
    THEN RStrip(SubSeq(text, 1, Len(text) - 1))
    ELSE text

\* str.strip()
Strip(text) == RStrip(LStrip(text))

\* one line of the streamed body: an empty line, a line that is not JSON, a
\* JSON object with a "response" chunk, the closing object with "done": true
BlankLine == [blank |-> TRUE, parsable |-> FALSE, obj |-> EmptyDict]
GarbageLine == [blank |-> FALSE, parsable |-> FALSE, obj |-> EmptyDict]
ChunkLine(chunk) == [blank |-> FALSE, parsable |-> TRUE, obj |-> [response |-> chunk]]
DoneLine == [blank |-> FALSE, parsable |-> TRUE, obj |-> [response |-> "", done |-> TRUE]]

StreamLines == {BlankLine, GarbageLine, ChunkLine("Partial"), ChunkLine(" "), DoneLine}

\* what the host answers to the non-streaming request: an error status, a
\* JSON object with the whole answer, a JSON object without "response", or
\* a body of JSON lines
FallbackAnswers ==
    {[kind |-> "error", chunks |-> <<>>],
     [kind |-> "json", chunks |-> <<"Whole answer", " ">>],
     [kind |-> "no response", chunks |-> <<>>],
     [kind |-> "ndjson", chunks |-> <<"Whole", " ", "answer">>]}

\* the host's behaviour during one call: whether the streaming POST gets a
\* good status, the lines it streams, the first line that arrives after
\* `timeout` seconds have passed since the start (Len(lines) + 1: none),
\* whether the body ends or the read times out after the last line, and the
\* answer to the non-streaming request
OllamaWorld(w) ==
    \E post_ok \in BOOLEAN, n \in 0..MaxLines, read_times_out \in BOOLEAN,
       fallback \in FallbackAnswers :
        \E lines \in SeqsOfLen(StreamLines, n), late_from \in 1..(n + 1) :
            w = [step |-> "ollama", post_ok |-> post_ok, lines |-> lines,
                 late_from |-> late_from, read_times_out |-> read_times_out,
                 fallback |-> fallback]

InitOllama ==
    /\ OllamaWorld(world)
    /\ pc = "ollama"
    /\ products = <<>>
    /\ dry_run = FALSE
    /\ threshold \in Thresholds
    /\ product_data = EmptyDict
    /\ reviews = NoReviews
    /\ scam_check = NoScamCheck
    /\ evidence = <<>>
    /\ trust_score = 0
    /\ Fresh
    /\ calls = <<>>
    /\ exited = <<>>
    /\ runs = 1
    /\ BotIdle

guru == <<config, i, locals, research, results, files, trace, exited, runs>>

\* the payload of the POST to LLM_HOST/api/generate
Payload(stream) == [url |-> "/api/generate", prompt |-> "prompt", stream |-> stream]

\* lines 95-99: the streaming POST and raise_for_status
OllamaPost ==
    /\ pc = "ollama"
    /\ calls' = Append(calls, Payload(TRUE))
    /\ pc' = IF world.post_ok THEN "stream" ELSE "fallback"
    /\ UNCHANGED <<guru, feed, world, exc, used_file, picked, parts, line_no, tripped,
                   returned>>

\* lines 100-112: one turn of `for line in r.iter_lines()`, or its end
OllamaReadLine ==
    /\ pc = "stream"
    /\ IF line_no = Len(world.lines)
       THEN /\ pc' = IF world.read_times_out THEN "fallback" ELSE "joined"
            /\ UNCHANGED <<line_no, parts, tripped>>
       ELSE LET line == world.lines[line_no + 1]
                late == line_no + 1 >= world.late_from
            IN  /\ line_no' = line_no + 1
                /\ IF line.blank
                   THEN UNCHANGED <<pc, parts, tripped>>
                   ELSE IF late
                   THEN pc' = "joined" /\ tripped' = TRUE /\ parts' = parts
                   ELSE IF ~line.parsable
                   THEN UNCHANGED <<pc, parts, tripped>>
                   ELSE /\ parts' = IF "response" \in DOMAIN line.obj
                                    THEN Append(parts, line.obj["response"])
                                    ELSE parts
                        /\ pc' = IF Get(line.obj, "done", FALSE) THEN "joined" ELSE "stream"
                        /\ tripped' = tripped
    /\ UNCHANGED <<guru, feed, world, exc, calls, used_file, picked, returned>>

\* lines 113-115: text = "".join(parts).strip(); if text: return text
OllamaJoin ==
    /\ pc = "joined"
    /\ LET text == Strip(Join(parts))
       IN  IF text # <<>>
           THEN returned' = text /\ pc' = "returned"
           ELSE returned' = returned /\ pc' = "fallback"
    /\ UNCHANGED <<guru, feed, world, exc, calls, used_file, picked, parts, line_no, tripped>>

\* lines 119-138: the non-streaming POST and what is made of its body
OllamaFallback ==
    /\ pc = "fallback"
    /\ calls' = Append(calls, Payload(FALSE))
    /\ LET answer == world.fallback
       IN  IF answer.kind = "error"
           THEN exc' = "HTTPError" /\ pc' = "raised" /\ returned' = returned
           ELSE /\ returned' = Strip(Join(answer.chunks))
                /\ pc' = "returned"
                /\ exc' = exc
    /\ UNCHANGED <<guru, feed, world, used_file, picked, parts, line_no, tripped>>

NextOllama ==
    \/ OllamaPost
    \/ OllamaReadLine
    \/ OllamaJoin
    \/ OllamaFallback

SpecOllama == InitOllama /\ [][NextOllama]_vars

(***************************************************************************)
(* bot/blogbot_openai.py: find_new_links, called once per run of the bot.  *)
(* The used-sources file is the sequence of what was written to it: source *)
(* URLs and line ends "\n".                                                *)
(***************************************************************************)
MaxSources == 3          \* longest CFG["curation"]["sources"]
MaxLimit == 2            \* largest CFG["curation"]["max_new_links"]
MaxBotRuns == 3          \* how many times the bot is run

Urls == {"https://a.example/feed", "https://b.example/feed", "https://c.example/feed"}

\* the lines of a text file, without their line ends
RECURSIVE SplitLines(_)
SplitLines(file) ==
    IF file = <<>> THEN <<>>
    ELSE IF \E k \in 1..Len(file) : file[k] = "\n"
    THEN LET k == CHOOSE k \in 1..Len(file) :
                      /\ file[k] = "\n"
                      /\ \A j \in 1..(k - 1) : file[j] # "\n"
         IN  <<SubSeq(file, 1, k - 1)>> \o SplitLines(SubSeq(file, k + 1, Len(file)))
    ELSE <<file>>

\* lines 136-139: set(line.strip() for line in f if line.strip())
UsedSources(file) ==
    LET lines == SplitLines(file)
    IN  {Strip(lines[k]) : k \in 1..Len(lines)} \ {<<>>}

MarkUsedUnseparated(file, selected) == file \o selected

\* lines 145-147: f.write(s + "\n") for each selected source
MarkUsed(file, selected) ==
    file \o Flatten([k \in 1..Len(selected) |-> <<selected[k], "\n">>])

\* lines 141-142
SelectNew(sources, limit, file) ==
    LET used == UsedSources(file)
        available == SelectSeq(sources, LAMBDA s : <<s>> \notin used)
    IN  SubSeq(available, 1, Min(limit, Len(available)))

InitLinks ==
    /\ \E n \in 0..MaxSources : \E sources \in SeqsOfLen(Urls, n) :
          world = [step |-> "links", sources |-> sources]
    /\ pc = "links"
    /\ products = <<>>
    /\ dry_run = FALSE
    /\ threshold \in Thresholds
    /\ product_data = EmptyDict
    /\ reviews = NoReviews
    /\ scam_check = NoScamCheck
    /\ evidence = <<>>
    /\ trust_score = 0
    /\ Fresh
    /\ calls = <<>>
    /\ exited = <<>>
    /\ runs = 1
    /\ BotIdle

\* one run of the bot: main(), line 26, calls find_new_links
find_new_links ==
    /\ pc = "links"
    /\ Len(picked) < MaxBotRuns
    /\ \E limit \in 0..MaxLimit :
          LET selected == SelectNew(world.sources, limit, used_file)
          IN  /\ used_file' = MarkUsed(used_file, selected)
              /\ picked' = Append(picked, [limit |-> limit, selected |-> selected])
    /\ UNCHANGED <<guru, feed, world, pc, exc, calls, parts, line_no, tripped, returned>>

NextLinks == find_new_links

SpecLinks == InitLinks /\ [][NextLinks]_vars

(***************************************************************************)
(* BlogGuru._get_products and the start of run()                           *)
(***************************************************************************)
MaxConfigured == 2

\* names of the products of config.yaml, as character strings
Keto == <<"K", "e", "t", "o">>
KetoCapitals == <<"K", "E", "T", "O">>
Zen == <<"Z", "e", "n">>
ConfiguredNames == {Keto, KetoCapitals, Zen}

\* a product of config.yaml: 'enabled' is optional
ConfiguredProducts ==
    {[name |-> n] : n \in ConfiguredNames}
        \cup {[name |-> n, enabled |-> e] : n \in ConfiguredNames, e \in BOOLEAN}

\* --product is absent (None, here a value that is no string of characters),
\* or one of these strings
None == <<"None">>
ProductArguments ==
    {None, <<>>, <<"k", "e", "t", "o">>, KetoCapitals, <<"z", "E", "N">>,
     <<"k", "e", "t">>}

\* `if product_name:` is false for None and for the empty string
HasProductName(product_name) == product_name # None /\ product_name # <<>>

NameMatchesExactly(p, product_name) == p["name"] = product_name

\* p['name'].lower() == product_name.lower()
NameMatches(p, product_name) == Lower(p["name"]) = Lower(product_name)

\* p.get('enabled', True)
IsEnabled(p) == Get(p, "enabled", TRUE)

_get_products(all_products, product_name) ==
    IF HasProductName(product_name)
    THEN SelectSeq(all_products, LAMBDA p : NameMatches(p, product_name))
    ELSE SelectSeq(all_products, LAMBDA p : IsEnabled(p))

InitSelect ==
    /\ \E n \in 0..MaxConfigured :
        \E all_products \in [1..n -> ConfiguredProducts] :
            \E product_name \in ProductArguments :
                world = [step |-> "select", all_products |-> all_products,
                         product_name |-> product_name]
    /\ products = <<>>
    /\ dry_run \in BOOLEAN
    /\ threshold \in Thresholds
    /\ pc = "select"
    /\ product_data = EmptyDict
    /\ reviews = NoReviews
    /\ scam_check = NoScamCheck
    /\ evidence = <<>>
    /\ trust_score = 0
    /\ Fresh
    /\ calls = <<>>
    /\ exited = <<>>
    /\ runs = 1
    /\ BotIdle

\* run(), line 69: products = self._get_products(product_name)
GetProducts ==
    /\ pc = "select"
    /\ products' = _get_products(world.all_products, world.product_name)
    /\ pc' = "start"
    /\ UNCHANGED <<outside, dry_run, threshold, i, exc, locals, research, results, files,
                   trace>>

NextSelect ==
    \/ GetProducts
    \/ Start
    \/ Research
    \/ Reject
    \/ DryRunStop
    \/ GenerateAndSave
    \/ Catch
    \/ Finish

SpecSelect == InitSelect /\ [][NextSelect]_vars

(***************************************************************************)
(* ContentGenerator: _generate_slug, _create_affiliate_section and         *)
(* _add_backlinks, each studied as one call                                *)
(***************************************************************************)
MaxTitleLen == 75

Digits == {"0", "1", "2", "3", "4", "5", "6", "7", "8", "9"}
LowerLetters == {LowerCase[k] : k \in DOMAIN LowerCase}

\* \s
WhiteSpace == {" ", "\t", "\n"}

\* re.sub(r'[^a-z0-9\s-]', '', slug)
DeleteOthers(s) ==
    SelectSeq(s, LAMBDA c : c \in LowerLetters \cup Digits \cup WhiteSpace \cup {"-"})

\* re.sub(r'\s+', '-', slug): the first character of every run of white
\* space becomes a hyphen, the rest of the run goes
Hyphenate(s) ==
    LET starts == SelectSeq([k \in 1..Len(s) |-> k],
                            LAMBDA k : \/ s[k] \notin WhiteSpace
                                       \/ k = 1
                                       \/ s[k - 1] \notin WhiteSpace)
    IN  [j \in 1..Len(starts) |->
            IF s[starts[j]] \in WhiteSpace THEN "-" ELSE s[starts[j]]]

\* slug.strip('-')
StripHyphens(s) ==
    LET kept == {k \in 1..Len(s) : s[k] # "-"}
    IN  IF kept = {} THEN <<>>
        ELSE SubSeq(s, CHOOSE k \in kept : \A m \in kept : k <= m,
                       CHOOSE k \in kept : \A m \in kept : k >= m)

\* [:70]
SlugMax == 70

TruncateNever(s) == s

Truncate(s) == SubSeq(s, 1, Min(Len(s), SlugMax))

\* the slug is date_prefix, "-" and the body
_generate_slug(title, today) ==
    <<today, "-">> \o Truncate(StripHyphens(Hyphenate(DeleteOthers(Lower(title)))))

\* titles: a pattern repeated up to a length, and some titles of posts
Repeat(pattern, n) == [k \in 1..n |-> pattern[((k - 1) % Len(pattern)) + 1]]

TitlePatterns ==
    {<<"A", "b", "c", "7", " ">>,
     <<"-", "7", "!", " ", "\t", "x">>,
     <<"K", "e", "t", "o", ":", " ", "-", " ">>}

TopFiveTitle ==
    <<"T", "o", "p", " ", "5", " ", " ", "K", "e", "t", "o", "-", "T", "i", "p", "s", "!">>
QuotedTitle == <<" ", "\"", "Z", "e", "n", "\"", " ", "&", " ", "U", " ", "-">>
SymbolsTitle == <<"?", "!", " ", "-", "-", " ", "%">>

Titles ==
    {Repeat(pattern, n) : pattern \in TitlePatterns, n \in 0..MaxTitleLen}
        \cup {TopFiveTitle, QuotedTitle, SymbolsTitle}

\* datetime.utcnow().strftime("%Y-%m-%d")
Dates == {"2025-12-31", "2026-01-05"}

SlugWorld(w) ==
    \E title \in Titles : \E today \in Dates :
        w = [step |-> "slug", title |-> title, today |-> today]

\* ---- _create_affiliate_section ----
\* links are sequences of pieces; "{id}" is the placeholder of a hoplink
ManualLink == <<"https://manual.example/go?aff=me">>
KetoHoplink == <<"https://", "{id}", ".ketoburn.hop.clickbank.net">>
TwiceHoplink == <<"https://hop.example/?a=", "{id}", "&b=", "{id}">>
PlainHoplink == <<"https://plain.example/offer">>
Hoplinks == {KetoHoplink, TwiceHoplink, PlainHoplink}

Platforms == {"clickbank", "digistore24"}

\* a product of config.yaml: 'affiliate_link' and 'hoplink' are optional
LinkedProducts ==
    {[name |-> "KetoBurn", platform |-> pf] : pf \in Platforms}
        \cup {[name |-> "KetoBurn", platform |-> pf, affiliate_link |-> a] :
                pf \in Platforms, a \in {ManualLink, <<>>}}
        \cup {[name |-> "KetoBurn", platform |-> pf, hoplink |-> h] :
                pf \in Platforms, h \in Hoplinks}
        \cup {[name |-> "KetoBurn", platform |-> pf, affiliate_link |-> a, hoplink |-> h] :
                pf \in Platforms, a \in {ManualLink, <<>>}, h \in Hoplinks}

\* config['platforms']['clickbank']: 'nickname' is optional
ClickbankConfigs == {EmptyDict, [nickname |-> "seller42"], [nickname |-> ""]}

\* str.replace(old, new)
Replace(s, old, new) == [k \in 1..Len(s) |-> IF s[k] = old THEN new ELSE s[k]]

\* the product has nothing the link could be taken from: product['hoplink']
\* raises KeyError
NoLinkSource(product) ==
    /\ "affiliate_link" \notin DOMAIN product
    /\ product["platform"] = "clickbank"
    /\ "hoplink" \notin DOMAIN product

AffiliateLinkPrefersHoplink(product, clickbank) ==
    IF product["platform"] = "clickbank" /\ "hoplink" \in DOMAIN product
    THEN Replace(product["hoplink"], "{id}", Get(clickbank, "nickname", "YOURNICKNAME"))
    ELSE IF "affiliate_link" \in DOMAIN product
    THEN product["affiliate_link"]
    ELSE Get(product, "hoplink", <<"#">>)

\* lines 316-327: affiliate_link
AffiliateLink(product, clickbank) ==
    IF "affiliate_link" \in DOMAIN product
    THEN product["affiliate_link"]
    ELSE IF product["platform"] = "clickbank"
    THEN Replace(product["hoplink"], "{id}", Get(clickbank, "nickname", "YOURNICKNAME"))
    ELSE Get(product, "hoplink", <<"#">>)

\* the section, as the values the template is filled with
_create_affiliate_section(product, t, clickbank) ==
    [name |-> product["name"], trust_score |-> t["trust_score"],
     recommendation |-> t["recommendation"], href |-> AffiliateLink(product, clickbank)]

AffiliateWorld(w) ==
    \E product \in LinkedProducts : \E clickbank \in ClickbankConfigs :
        \E score \in ResearchScores :
            w = [step |-> "affiliate", product |-> product, clickbank |-> clickbank,
                 research |-> ResearchRecord(product["name"], score)]

CreateAffiliateSection ==
    /\ pc = "affiliate"
    /\ IF NoLinkSource(world.product)
       THEN /\ exc' = "KeyError: 'hoplink'"
            /\ pc' = "raised"
            /\ UNCHANGED returned
       ELSE /\ returned' = _create_affiliate_section(world.product, world.research,
                                                     world.clickbank)
            /\ pc' = "returned"
            /\ UNCHANGED exc
    /\ UNCHANGED <<guru, feed, world, calls, used_file, picked, parts, line_no, tripped>>

GenerateSlug ==
    /\ pc = "slug"
    /\ returned' = _generate_slug(world.title, world.today)
    /\ pc' = "returned"
    /\ UNCHANGED <<guru, feed, world, calls, exc, used_file, picked, parts, line_no,
                   tripped>>

\* ---- _add_backlinks ----
MaxBacklinkEvidence == 3
MaxBacklinksCap == 2

\* contents and claims are sequences of pieces: a word is a piece of one
\* string, a link a piece of three
Words(ws) == [k \in 1..Len(ws) |-> <<ws[k]>>]

EnergyContent ==
    Words(<<"it", "boosts", "energy", "and", "boosts", "energy", "daily">>)
SleepContent == Words(<<"supports", "sleep", "and", "energy">>)
Contents == {EnergyContent, SleepContent, <<>>}

BoostsEnergy == Words(<<"boosts", "energy">>)
Energy == Words(<<"energy">>)
SupportsSleep == Words(<<"supports", "sleep">>)
BurnsFat == Words(<<"burns", "fat">>)

\* evidence records of _find_evidence: several sources can back one claim
BacklinkEvidence ==
    {[claim |-> BoostsEnergy, url |-> "https://pubmed.example/1"],
     [claim |-> BoostsEnergy, url |-> "https://nih.example/2"],
     [claim |-> Energy, url |-> "https://mayo.example/3"],
     [claim |-> SupportsSleep, url |-> "https://pubmed.example/4"],
     [claim |-> BurnsFat, url |-> "https://nih.example/5"],
     [claim |-> <<>>, url |-> "https://mayo.example/6"]}

\* f"[according to research]({ev['url']})"
LinkText(url) == <<"[according to research](", url, ")">>

\* content.replace(old, f"{old} {link_text}", 1): the link goes behind the
\* first occurrence of old
LinkAfterFirst(content, old, link) ==
    LET at == CHOOSE k \in 1..(Len(content) - Len(old) + 1) :
                  /\ SubSeq(content, k, k + Len(old) - 1) = old
                  /\ \A m \in 1..(k - 1) : SubSeq(content, m, m + Len(old) - 1) # old
    IN  SubSeq(content, 1, at + Len(old) - 1) \o <<link>>
            \o SubSeq(content, at + Len(old), Len(content))

LimitNever(backlink_count, max_backlinks) == FALSE

\* line 152: if backlink_count >= max_backlinks: break
LimitReached(backlink_count, max_backlinks) == backlink_count >= max_backlinks

BacklinksWorld(w) ==
    \E n \in 0..MaxBacklinkEvidence :
        \E content \in Contents, items \in [1..n -> BacklinkEvidence] :
            \E enabled \in BOOLEAN, max_backlinks \in 0..MaxBacklinksCap :
                w = [step |-> "backlinks", content |-> content, evidence |-> items,
                     enabled |-> enabled, max_backlinks |-> max_backlinks]

\* lines 144-148: the call starts
AddBacklinks ==
    /\ pc = "backlinks"
    /\ IF ~world.enabled
       THEN /\ returned' = world.content
            /\ pc' = "returned"
            /\ UNCHANGED frame
       ELSE /\ frame' = [content |-> world.content, backlink_count |-> 0, k |-> 1]
            /\ pc' = "backlinks_loop"
            /\ UNCHANGED returned
    /\ UNCHANGED <<guru, posts, fetched, world, calls, exc, used_file, picked, parts,
                   line_no, tripped>>

\* lines 151-160: one evidence item, or the end of the loop and the return
AddBacklinksStep ==
    /\ pc = "backlinks_loop"
    /\ IF \/ frame.k > Len(world.evidence)
          \/ LimitReached(frame.backlink_count, world.max_backlinks)
       THEN /\ returned' = frame.content
            /\ pc' = "returned"
            /\ frame' = EmptyDict
       ELSE LET ev == world.evidence[frame.k]
            IN  /\ frame' =
                     IF Contains(ev["claim"], frame.content)
                     THEN [content |-> LinkAfterFirst(frame.content, ev["claim"],
                                                      LinkText(ev["url"])),
                           backlink_count |-> frame.backlink_count + 1,
                           k |-> frame.k + 1]
                     ELSE [frame EXCEPT !.k = frame.k + 1]
                /\ UNCHANGED <<returned, pc>>
    /\ UNCHANGED <<guru, posts, fetched, world, calls, exc, used_file, picked, parts,
                   line_no, tripped>>

InitContent ==
    /\ products = <<>>
    /\ dry_run = FALSE
    /\ threshold \in Thresholds
    /\ SlugWorld(world) \/ AffiliateWorld(world) \/ BacklinksWorld(world)
    /\ pc = world.step
    /\ product_data = EmptyDict
    /\ reviews = NoReviews
    /\ scam_check = NoScamCheck
    /\ evidence = <<>>
    /\ trust_score = 0
    /\ Fresh
    /\ calls = <<>>
    /\ exited = <<>>
    /\ runs = 1
    /\ BotIdle

NextContent ==
    \/ GenerateSlug
    \/ CreateAffiliateSection
    \/ AddBacklinks
    \/ AddBacklinksStep

SpecContent == InitContent /\ [][NextContent]_vars

(***************************************************************************)
(* research_product with the _web_search that is shipped: every query     *)
(* returns the empty list                                                  *)
(***************************************************************************)
MaxShippedFlags == 14

WebSearchFindsScam(query) == SearchReturns(<<ScamHit>>)

\* _web_search as shipped: return []
_web_search(query) == SearchReturns(<<>>)

\* landing pages on which the LLM sees up to MaxShippedFlags red flags
FlaggedAnswers ==
    {LLMReturns(JsonText([claims |-> c, benefits |-> <<>>, ingredients |-> <<>>,
                          red_flags |-> [k \in 1..n |-> "red flag"]])) :
        c \in ClaimLists, n \in 0..MaxShippedFlags}

ScrapeFlagged ==
    /\ pc = "scrape"
    /\ \E fetch_ok \in BOOLEAN, answer \in ScrapeAnswers \cup FlaggedAnswers :
          product_data' = _scrape_landing_page(fetch_ok, answer)
    /\ pc' = "reviews"
    /\ UNCHANGED <<outside, config, i, exc, reviews, scam_check, evidence, trust_score,
                   research, results, files, trace>>

SearchReviewsShipped ==
    /\ pc = "reviews"
    /\ \E answer \in ReviewAnswers :
          reviews' = _search_reviews([q \in 1..NumReviewQueries |-> _web_search(q)], answer)
    /\ pc' = "scam"
    /\ UNCHANGED <<outside, config, i, exc, product_data, scam_check, evidence, trust_score,
                   research, results, files, trace>>

CheckScamReportsShipped ==
    /\ pc = "scam"
    /\ scam_check' = _check_scam_reports([q \in 1..NumScamQueries |-> _web_search(q)])
    /\ pc' = "evidence"
    /\ UNCHANGED <<outside, config, i, exc, product_data, reviews, evidence, trust_score,
                   research, results, files, trace>>

FindEvidenceShipped ==
    /\ pc = "evidence"
    /\ IF "claims" \notin DOMAIN product_data
       THEN Raise("KeyError: 'claims'")
       ELSE /\ evidence' =
                  _find_evidence(product_data["claims"], EvidenceSources,
                                 [c \in 1..Len(product_data["claims"]) |->
                                     [s \in 1..Len(EvidenceSources) |->
                                         _web_search(<<c, s>>)]])
            /\ pc' = "score"
            /\ UNCHANGED <<exc, product_data, reviews, scam_check, trust_score, research>>
    /\ UNCHANGED <<outside, config, i, results, files, trace>>

NextShipped ==
    \/ Start
    \/ ScrapeFlagged
    \/ SearchReviewsShipped
    \/ CheckScamReportsShipped
    \/ FindEvidenceShipped
    \/ Score
    \/ Decide
    \/ Reject
    \/ DryRunStop
    \/ GenerateAndSave
    \/ Catch
    \/ Finish

SpecShipped == InitRuns /\ [][NextShipped]_vars

(***************************************************************************)
(* blogbot_openai.main: select new links, then fetch each and post         *)
(***************************************************************************)
\* fetch_clean: None when the request fails, else the extracted text, of
\* which only the number of words matters
MaxBotSources == 2

FetchOutcomes ==
    {[ok |-> FALSE, words |-> 0]} \cup {[ok |-> TRUE, words |-> w] : w \in {0, 199, 200}}

\* line 33: len(base_text.split()) < 200
MinWords == 200

SkipsOnlyFailures(outcome) == ~outcome.ok

\* line 33: if not base_text or len(base_text.split()) < 200: continue
Skips(outcome) == ~outcome.ok \/ outcome.words = 0 \/ outcome.words < MinWords

InitBot ==
    /\ \E n \in 0..MaxBotSources : \E sources \in SeqsOfLen(Urls, n) :
          world = [step |-> "bot", sources |-> sources]
    /\ pc = "main"
    /\ products = <<>>
    /\ dry_run = FALSE
    /\ threshold \in Thresholds
    /\ product_data = EmptyDict
    /\ reviews = NoReviews
    /\ scam_check = NoScamCheck
    /\ evidence = <<>>
    /\ trust_score = 0
    /\ Fresh
    /\ calls = <<>>
    /\ exited = <<>>
    /\ runs = 1
    /\ BotIdle

\* main(), lines 25-29: a run of the bot starts; find_new_links logs what it
\* selects, and the run is over when it selects nothing
BotMain ==
    /\ pc = "main"
    /\ Len(picked) < MaxBotRuns
    /\ \E limit \in 0..MaxLimit :
          LET selected == SelectNew(world.sources, limit, used_file)
          IN  /\ used_file' = MarkUsed(used_file, selected)
              /\ picked' = Append(picked, [limit |-> limit, selected |-> selected])
              /\ IF selected = <<>>
                 THEN UNCHANGED <<pc, frame>>
                 ELSE /\ pc' = "fetch"
                      /\ frame' = [links |-> selected, k |-> 1]
    /\ UNCHANGED <<guru, posts, fetched, world, exc, calls, parts, line_no, tripped,
                   returned>>

\* main(), lines 31-70: one link of the loop; after the last one the run ends
FetchLink ==
    /\ pc = "fetch"
    /\ \E outcome \in FetchOutcomes :
          LET url == frame.links[frame.k]
          IN  /\ fetched' = Append(fetched, [url |-> url, outcome |-> outcome,
                                             run |-> Len(picked)])
              /\ posts' = IF Skips(outcome) THEN posts ELSE Append(posts, url)
    /\ IF frame.k = Len(frame.links)
       THEN /\ pc' = "main"
            /\ frame' = EmptyDict
       ELSE /\ frame' = [frame EXCEPT !.k = frame.k + 1]
            /\ UNCHANGED pc
    /\ UNCHANGED <<guru, world, exc, calls, used_file, picked, parts, line_no, tripped,
                   returned>>

NextBot ==
    \/ BotMain
    \/ FetchLink

SpecBot == InitBot /\ [][NextBot]_vars

(***************************************************************************)
(* expand_sources.recent_from_sitemap                                      *)
(***************************************************************************)
MaxSitemapUrls == 2
MaxChildren == 2
MaxSitemapLimit == 2

HealthPage == "https://s.example/health/a"
SleepPage == "https://s.example/sleep/b"
DietPage == "https://s.example/diet/c"
AboutPage == "https://s.example/about"

\* KEEP.search(urlparse(u).path): the pages whose path has a topical word
Topical == {HealthPage, SleepPage, DietPage}

\* a <url> element: its loc ("" when it has none) and whether its lastmod
\* is older than the cutoff
UrlEntries ==
    {[loc |-> u, stale |-> FALSE] : u \in {HealthPage, SleepPage, DietPage, AboutPage, ""}}
        \cup {[loc |-> HealthPage, stale |-> TRUE]}

UrlLists == UNION {[1..n -> UrlEntries] : n \in 0..MaxSitemapUrls}

\* a child sitemap of an index: whether it can be fetched and parsed, and
\* its <url> elements
ChildSitemaps ==
    {[ok |-> FALSE, urls |-> <<>>]} \cup {[ok |-> TRUE, urls |-> us] : us \in UrlLists}

\* lines 116-126 and 104-113: the loop over the <url> elements of one
\* document, left as soon as the set has `limit` members
RECURSIVE ScanUrls(_, _, _)
ScanUrls(entries, urls, limit) ==
    IF entries = <<>> THEN urls
    ELSE LET u == Head(entries)
         IN  IF u.loc = "" \/ u.stale
             THEN ScanUrls(Tail(entries), urls, limit)
             ELSE IF Cardinality(urls \cup {u.loc}) >= limit
             THEN urls \cup {u.loc}
             ELSE ScanUrls(Tail(entries), urls \cup {u.loc}, limit)

\* lines 93-113: the loop over the child sitemaps of an index; the break of
\* line 113 leaves the inner loop only
RECURSIVE ScanChildren(_, _, _)
ScanChildren(children, urls, limit) ==
    IF children = <<>> THEN urls
    ELSE LET child == Head(children)
         IN  IF ~child.ok
             THEN ScanChildren(Tail(children), urls, limit)
             ELSE ScanChildren(Tail(children), ScanUrls(child.urls, urls, limit), limit)

\* the list that is returned has the members of a set, in no fixed order
recent_from_sitemap(root, limit) ==
    IF root.kind = "unavailable" THEN {}
    ELSE LET urls == IF root.kind = "sitemapindex"
                     THEN ScanChildren(root.children, {}, limit)
                     ELSE ScanUrls(root.urls, {}, limit)
         IN  {u \in urls : u \in Topical}

SitemapWorld(w) ==
    \E limit \in 1..MaxSitemapLimit :
        \/ w = [step |-> "sitemap", limit |-> limit,
                root |-> [kind |-> "unavailable", urls |-> <<>>, children |-> <<>>]]
        \/ \E us \in UrlLists :
              w = [step |-> "sitemap", limit |-> limit,
                   root |-> [kind |-> "urlset", urls |-> us, children |-> <<>>]]
        \/ \E n \in 0..MaxChildren : \E children \in [1..n -> ChildSitemaps] :
              w = [step |-> "sitemap", limit |-> limit,
                   root |-> [kind |-> "sitemapindex", urls |-> <<>>,
                             children |-> children]]

InitSitemap ==
    /\ SitemapWorld(world)
    /\ pc = world.step
    /\ products = <<>>
    /\ dry_run = FALSE
    /\ threshold \in Thresholds
    /\ product_data = EmptyDict
    /\ reviews = NoReviews
    /\ scam_check = NoScamCheck
    /\ evidence = <<>>
    /\ trust_score = 0
    /\ Fresh
    /\ calls = <<>>
    /\ exited = <<>>
    /\ runs = 1
    /\ BotIdle

RecentFromSitemap ==
    /\ pc = "sitemap"
    /\ returned' = recent_from_sitemap(world.root, world.limit)
    /\ pc' = "returned"
    /\ UNCHANGED <<guru, feed, world, calls, exc, used_file, picked, parts, line_no,
                   tripped>>

NextSitemap == RecentFromSitemap

SpecSitemap == InitSitemap /\ [][NextSitemap]_vars

(***************************************************************************)
(* expand_sources: the merge of the discovered URLs into curation.sources  *)
(***************************************************************************)
MaxExisting == 3
MaxPoolCap == 3

\* URLs as they are after normalize, in the order sorted() puts them
SortedUrls ==
    <<<<"https://a.example/news">>, <<"https://b.example/blog">>,
      <<"https://c.example/feed">>, <<"https://d.example/health">>>>

NormalUrls == {SortedUrls[k] : k \in DOMAIN SortedUrls}

\* sources as they stand in the config: some with a trailing slash or with
\* white space around them
ConfigSources ==
    {SortedUrls[1], SortedUrls[1] \o <<"/">>, SortedUrls[2], <<" ">> \o SortedUrls[2],
     SortedUrls[3]}

\* normalize(u): strip, and drop one trailing slash
normalize(u) ==
    LET s == Strip(u)
    IN  IF s # <<>> /\ s[Len(s)] = "/" THEN SubSeq(s, 1, Len(s) - 1) ELSE s

\* lines 164-166 and 168-170: append the members of us that were not seen
RECURSIVE AppendUnseen(_, _)
AppendUnseen(pool, us) ==
    IF us = <<>> THEN pool
    ELSE IF \E k \in 1..Len(pool) : pool[k] = Head(us)
    THEN AppendUnseen(pool, Tail(us))
    ELSE AppendUnseen(Append(pool, Head(us)), Tail(us))

\* sorted(found)
Sorted(found) == SelectSeq(SortedUrls, LAMBDA u : u \in found)

CapKeepsFront(pool, max_pool) ==
    IF max_pool # 0 /\ Len(pool) > max_pool THEN SubSeq(pool, 1, max_pool) ELSE pool

\* lines 173-174: if OUT_CFG_MAX and len(pool) > OUT_CFG_MAX: pool[-OUT_CFG_MAX:]
Cap(pool, max_pool) ==
    IF max_pool # 0 /\ Len(pool) > max_pool
    THEN SubSeq(pool, Len(pool) - max_pool + 1, Len(pool))
    ELSE pool

\* lines 160-176: the pool that is written back to the config
MergePool(sources, found, max_pool) ==
    LET existing == [k \in 1..Len(sources) |-> normalize(sources[k])]
    IN  Cap(AppendUnseen(AppendUnseen(<<>>, existing), Sorted(found)), max_pool)

PoolWorld(w) ==
    \E n \in 0..MaxExisting : \E sources \in [1..n -> ConfigSources] :
        \E found \in SUBSET NormalUrls, max_pool \in 0..MaxPoolCap :
            w = [step |-> "pool", sources |-> sources, found |-> found,
                 max_pool |-> max_pool]

InitPool ==
    /\ PoolWorld(world)
    /\ pc = world.step
    /\ products = <<>>
    /\ dry_run = FALSE
    /\ threshold \in Thresholds
    /\ product_data = EmptyDict
    /\ reviews = NoReviews
    /\ scam_check = NoScamCheck
    /\ evidence = <<>>
    /\ trust_score = 0
    /\ Fresh
    /\ calls = <<>>
    /\ exited = <<>>
    /\ runs = 1
    /\ BotIdle

\* the script from the merge on: CURATION["sources"] = pool, and the dump
ExpandSources ==
    /\ pc = "pool"
    /\ returned' = MergePool(world.sources, world.found, world.max_pool)
    /\ pc' = "returned"
    /\ UNCHANGED <<guru, feed, world, calls, exc, used_file, picked, parts, line_no,
                   tripped>>

NextPool == ExpandSources

SpecPool == InitPool /\ [][NextPool]_vars

(***************************************************************************)
(* Properties                                                              *)
(***************************************************************************)
Scored == pc = "decide"
Decided == pc = "process"

RedFlagCount == IF "red_flags" \in DOMAIN product_data THEN Len(product_data["red_flags"]) ELSE 0
Sentiment == reviews["sentiment_score"]
ScamFound == scam_check["scam_reports_found"]

\* C1: whatever the red flags, the evidence count, the sentiment score in
\* -1.0..1.0, scam_reports_found and fake_detected, the score that
\* _calculate_trust_score returns is an integer in 0..100.
C1_ScoreInRange == Scored => trust_score \in 0..100

\* the running total is negative and the returned score is 0
C1_Witness ==
    /\ Scored
    /\ RawScore(product_data, reviews, scam_check, evidence) < 0
    /\ trust_score = 0

\* C2: the score is clamp(50 + E + S + B - 5*|red_flags| - P - F - N, 0, 100)
\* with E = 15 / 10 / 0 for an evidence count >= 3 / >= 1 / 0, S = 20 / 10 / 0
\* for a sentiment > 0.6 / > 0.3 / otherwise, B = 15 without scam reports,
\* P = 30 with scam reports, F = 20 if fake_detected, N = 20 if the sentiment
\* is negative; the red-flag penalty is not capped before the clamp.
C2_ClosedForm ==
    LET E == IF Len(evidence) >= 3 THEN 15 ELSE IF Len(evidence) >= 1 THEN 10 ELSE 0
        S == IF Sentiment > 60 THEN 20 ELSE IF Sentiment > 30 THEN 10 ELSE 0
        B == IF ScamFound THEN 0 ELSE 15
        P == IF ScamFound THEN 30 ELSE 0
        F == IF reviews["fake_detected"] THEN 20 ELSE 0
        N == IF Sentiment < 0 THEN 20 ELSE 0
        total == 50 + E + S + B - 5 * RedFlagCount - P - F - N
    IN  Scored => trust_score = (IF total < 0 THEN 0 ELSE IF total > 100 THEN 100 ELSE total)

\* four red flags cost 20 points: 50 + 15 - 20
C2_Witness ==
    /\ Scored
    /\ RedFlagCount = 4
    /\ Len(evidence) = 0 /\ Sentiment = 0 /\ ~ScamFound /\ ~reviews["fake_detected"]
    /\ trust_score = 45

\* what a non-negative sentiment adds to the running total: the total for
\* the inputs at hand minus the total for the same inputs with sentiment 0
SentimentBonus ==
    RawScore(product_data, reviews, scam_check, evidence)
    - RawScore(product_data, [reviews EXCEPT !["sentiment_score"] = 0], scam_check, evidence)

\* C3 as stated: a sentiment of exactly 0.6 and a sentiment of exactly 0.3
\* each contribute no sentiment bonus; only values above 0.6 earn +20 and
\* only values above 0.3 earn +10.
C3_NoBonusAtThresholds ==
    Scored /\ Sentiment >= 0 =>
        /\ Sentiment = 60 => SentimentBonus = 0
        /\ Sentiment = 30 => SentimentBonus = 0
        /\ Sentiment > 60 => SentimentBonus = 20
        /\ SentimentBonus = 10 => Sentiment > 30

\* C3 amended: a sentiment of exactly 0.6 misses the +20 bonus but earns the
\* +10 bonus (0.6 > 0.3); a sentiment of exactly 0.3 earns no bonus; values
\* above 0.6 earn +20 and values above 0.3 up to 0.6 earn +10.
C3_StrictThresholds ==
    Scored /\ Sentiment >= 0 =>
        /\ Sentiment = 60 => SentimentBonus = 10
        /\ Sentiment = 30 => SentimentBonus = 0
        /\ Sentiment > 60 => SentimentBonus = 20
        /\ Sentiment > 30 /\ Sentiment <= 60 => SentimentBonus = 10
        /\ Sentiment <= 30 => SentimentBonus = 0

\* sentiment exactly 0.6, nothing else: 50 + 10 + 15
C3_Witness ==
    /\ Scored
    /\ Sentiment = 60
    /\ Len(evidence) = 0 /\ RedFlagCount = 0 /\ ~ScamFound /\ ~reviews["fake_detected"]
    /\ trust_score = 75

\* C4: approved is true exactly when trust_score >= the configured
\* threshold, the boundary trust_score = threshold included, for every score
\* in 0..100 and every threshold.
C4_ApprovedIffAtLeastThreshold ==
    Decided => (research["approved"] <=> research["trust_score"] >= threshold)

\* a score equal to the threshold is approved
C4_Witness ==
    /\ Decided
    /\ research["trust_score"] = threshold
    /\ research["approved"]

\* C5: research_product never raises because of a failing signal channel;
\* whatever the fetch, the LLM and the searches do, the run reaches a trust
\* score and an approved decision.
C5_ResearchNeverRaises ==
    /\ pc # "raised"
    /\ \A k \in 1..Len(trace) : ~trace[k]["raised"]

\* C6: every selected product has exactly one entry in the saved run
\* summary, a product whose processing raised included.
C6_OneEntryPerProduct ==
    pc = "done" /\ products # <<>> =>
        /\ summary_saved
        /\ Len(run_summary) = Len(products)
        /\ \A k \in 1..Len(products) : run_summary[k]["product"] = products[k]["name"]

\* the finished products for which content is due
ContentDue == SelectSeq(trace, LAMBDA t : ~t["raised"] /\ t["approved"] /\ ~dry_run)
NamesOf(ts) == [k \in 1..Len(ts) |-> ts[k]["product"]]

C8_RecommendationBands ==
    /\ Cardinality({HighlyRecommended, Recommended, Caution, NotRecommended}) = 4
    /\ Decided =>
        LET score == research["trust_score"]
            text == research["recommendation"]
        IN  /\ score \in 80..100 => text = HighlyRecommended
            /\ score \in 60..79 => text = Recommended
            /\ score \in 40..59 => text = Caution
            /\ score \in 0..39 => text = NotRecommended

\* 79 falls in the band below 80
C8_Witness ==
    /\ Decided
    /\ research["trust_score"] = 79
    /\ research["recommendation"] = Recommended

\* C9: for inputs that differ only in scam_reports_found, the running total
\* with scam reports is 45 lower than without.
C9_ScamCosts45 ==
    Scored =>
        RawScore(product_data, reviews,
                 [scam_check EXCEPT !["scam_reports_found"] = TRUE], evidence)
        = RawScore(product_data, reviews,
                   [scam_check EXCEPT !["scam_reports_found"] = FALSE], evidence) - 45

\* scam reports and nothing else: 50 - 30, against 65 without them
C9_Witness ==
    /\ Scored
    /\ ScamFound
    /\ Len(evidence) = 0 /\ RedFlagCount = 0 /\ Sentiment = 0 /\ ~reviews["fake_detected"]
    /\ trust_score = 20

\* the summary entry a product gets from its own research record alone
OwnEntry(t) ==
    IF ~t["approved"]
    THEN [product |-> t["product"], status |-> "rejected",
          trust_score |-> t["trust_score"], reason |-> t["recommendation"]]
    ELSE IF dry_run
    THEN [product |-> t["product"], status |-> "approved",
          trust_score |-> t["trust_score"], content_generated |-> FALSE]
    ELSE [product |-> t["product"], status |-> "completed",
          trust_score |-> t["trust_score"], content_generated |-> TRUE]

\* C10: an exception escaping one product is caught in run(), adds one line
\* with the product and the error to the error log, and every remaining
\* product is still processed; the other products' outcomes are those their
\* own research gives, as if the failing product were not in the list.
C10_FailureIsIsolated ==
    LET ok == SelectSeq(trace, LAMBDA t : ~t["raised"])
        failed == SelectSeq(trace, LAMBDA t : t["raised"])
    IN  /\ results = [k \in 1..Len(ok) |-> OwnEntry(ok[k])]
        /\ Len(errors_log) = Len(failed)
        /\ \A k \in 1..Len(failed) :
              /\ errors_log[k]["product"] = failed[k]["product"]
              /\ errors_log[k]["error"] # ""
        /\ pc \in {"summary", "done"} /\ products # <<>> =>
              /\ Len(trace) = Len(products)
              /\ \A k \in 1..Len(products) : trace[k]["product"] = products[k]["name"]
        /\ pc = "done" /\ products # <<>> => run_summary = results

\* the first product raised, the second was still processed and is the only
\* entry of the summary
C10_Witness ==
    /\ pc = "done"
    /\ Len(trace) = 2
    /\ trace[1]["raised"] /\ ~trace[2]["raised"]
    /\ Len(errors_log) = 1 /\ errors_log[1]["product"] = products[1]["name"]
    /\ Len(run_summary) = 1 /\ run_summary[1]["product"] = products[2]["name"]
Returned(step) == pc = "returned" /\ world.step = step

\* C11: whenever the landing-page fetch fails or the LLM output cannot be
\* parsed as JSON, _scrape_landing_page returns claims = [], benefits = [],
\* ingredients = [] and red_flags = ['Unable to scrape landing page'], one
\* red flag exactly.
C11_ScrapeFailureGivesDefault ==
    Returned("scrape")
    /\ (~world.fetch_ok \/ (~world.answer.failed /\ ~world.answer.text.parsable))
    => /\ DOMAIN product_data = {"claims", "benefits", "ingredients", "red_flags"}
       /\ product_data["claims"] = <<>>
       /\ product_data["benefits"] = <<>>
       /\ product_data["ingredients"] = <<>>
       /\ product_data["red_flags"] = <<"Unable to scrape landing page">>
       /\ Len(product_data["red_flags"]) = 1

\* the page was fetched, the LLM answered with text that is not JSON, and the
\* default came back
C11_Witness ==
    /\ Returned("scrape")
    /\ world.fetch_ok /\ ~world.answer.failed /\ ~world.answer.text.parsable
    /\ product_data["red_flags"] = <<"Unable to scrape landing page">>

\* no query of the world at hand yields a review text: each search fails,
\* returns nothing, or returns only results whose page extraction is empty
NoReviewText ==
    \A q \in 1..Len(world.searches) :
        \/ world.searches[q].failed
        \/ \A k \in 1..Len(world.searches[q].results) :
              world.searches[q].results[k].page = ""

\* C12: _search_reviews always returns; without any review text it returns
\* the neutral default with sentiment_score = 0 and fake_detected = false
\* whatever the LLM would have said, and when there is review text but the
\* LLM call fails or its answer is not JSON it returns sentiment_score = 0
\* and fake_detected = false as well.
C12_ReviewsFallBackToNeutral ==
    Returned("reviews") =>
        /\ DOMAIN reviews =
              {"positive", "negative", "neutral", "fake_detected", "sentiment_score"}
        /\ NoReviewText =>
              reviews = [positive |-> <<>>, negative |-> <<>>, neutral |-> <<>>,
                         fake_detected |-> FALSE, sentiment_score |-> 0]
        /\ ~NoReviewText /\ (world.answer.failed \/ ~world.answer.text.parsable) =>
              reviews["sentiment_score"] = 0 /\ reviews["fake_detected"] = FALSE

\* no review text was found, the LLM would have reported a sentiment of 0.7,
\* and the neutral default came back
C12_Witness ==
    /\ Returned("reviews")
    /\ NoReviewText
    /\ \E q \in 1..Len(world.searches) : world.searches[q].failed
    /\ \E q \in 1..Len(world.searches) : world.searches[q] = SearchReturns(<<EmptyPage>>)
    /\ ~world.answer.failed /\ world.answer.text.parsable
    /\ Get(world.answer.text.value, "sentiment_score", 0) = 70
    /\ reviews["sentiment_score"] = 0 /\ ~reviews["fake_detected"]

\* the results, of those a scam query may return, whose title or snippet
\* contains 'scam', 'fraud', 'fake' or 'ripoff' in any mix of cases
ContainLexiconWord == {UpperCaseScam, FraudInSnippet, FakeInsideWord}

\* the results of the q-th scam query of the world at hand that count as scam
\* reports (none when the search failed), as {url, title}
ReportsOf(q) ==
    IF world.searches[q].failed THEN <<>>
    ELSE LET hits == SelectSeq(world.searches[q].results,
                               LAMBDA r : r \in ContainLexiconWord)
         IN  [k \in 1..Len(hits) |-> [url |-> hits[k].url, title |-> hits[k].title]]

\* C13: scam_reports_found is true if and only if some result of some query
\* has a title or snippet containing 'scam', 'fraud', 'fake' or 'ripoff' as a
\* case-insensitive substring; sources holds one {url, title} per such
\* result; a failing search contributes nothing and takes nothing away from
\* what the other queries contribute.
C13_ScamFoundIffLexiconHit ==
    Returned("scam") =>
        /\ scam_check["sources"] =
              Flatten([q \in 1..Len(world.searches) |-> ReportsOf(q)])
        /\ scam_check["scam_reports_found"] <=>
              \E q \in 1..Len(world.searches) :
                  /\ ~world.searches[q].failed
                  /\ \E k \in 1..Len(world.searches[q].results) :
                        world.searches[q].results[k] \in ContainLexiconWord

\* the first search fails, the second returns 'SCAM!' in upper case, the
\* third a capitalised 'Fraud' in a snippet: two sources
C13_Witness ==
    /\ Returned("scam")
    /\ world.searches[1].failed
    /\ world.searches[2] = SearchReturns(<<UpperCaseScam>>)
    /\ world.searches[3] = SearchReturns(<<PlainResult, FraudInSnippet>>)
    /\ world.searches[4] = SearchReturns(<<RipOffTwoWords>>)
    /\ scam_check["scam_reports_found"]
    /\ Len(scam_check["sources"]) = 2

FirstThree(seq) == SubSeq(seq, 1, IF Len(seq) < 3 THEN Len(seq) ELSE 3)

\* what the search of one query of _find_evidence did in the world at hand
OutcomeOf(query) ==
    LET c == CHOOSE c \in 1..Len(world.claims) : world.claims[c] = query.claim
        s == CHOOSE s \in 1..Len(world.sources) : world.sources[s] = query.site
    IN  world.searches[c][s]

\* one record per result the query got, none when its search failed
RecordsFor(query) ==
    LET outcome == OutcomeOf(query)
    IN  IF outcome.failed THEN <<>>
        ELSE [k \in 1..Len(outcome.results) |->
                [claim |-> query.claim, source |-> query.site,
                 title |-> outcome.results[k].title,
                 url |-> outcome.results[k].url,
                 snippet |-> IF "snippet" \in DOMAIN outcome.results[k]
                             THEN outcome.results[k].snippet ELSE <<>>]]

\* C20: _find_evidence issues exactly one search for each pair of one of the
\* first 3 claims and one of the first 3 configured evidence sources and no
\* other search, so at most 9, each asking for at most 2 results; it returns
\* exactly one record {claim, source, title, url, snippet} per result that a
\* search returned, with the claim and the source of that search; a failing
\* search adds no record and the searches after it are still made.
C20_EvidencePerPair ==
    Returned("evidence") =>
        LET cs == FirstThree(world.claims)
            ss == FirstThree(world.sources)
        IN  /\ Len(calls) = Len(cs) * Len(ss)
            /\ Len(calls) <= 9
            /\ \A c \in 1..Len(cs), s \in 1..Len(ss) :
                  Cardinality({q \in 1..Len(calls) :
                      calls[q].claim = cs[c] /\ calls[q].site = ss[s]}) = 1
            /\ \A q \in 1..Len(calls) : calls[q].num_results <= 2
            /\ evidence = Flatten([q \in 1..Len(calls) |-> RecordsFor(calls[q])])

\* four claims and four sources: nine searches, those for the first claim
\* fail, the last record is for the third claim and the third source
C20_Witness ==
    /\ Returned("evidence")
    /\ Len(world.claims) = 4 /\ Len(world.sources) = 4
    /\ Len(calls) = 9
    /\ \A s \in 1..3 : world.searches[1][s].failed
    /\ world.searches[4][4] = SearchReturns(<<PlainResult, ScamHit>>)
    /\ evidence # <<>>
    /\ evidence[Len(evidence)].claim = 3
    /\ evidence[Len(evidence)].source = world.sources[3]

\* the finished products, of all runs so far, that were rejected
Rejections == SelectSeq(trace, LAMBDA t : ~t["raised"] /\ ~t["approved"])

\* what one step does to the rejection log
RejectionLogStep ==
    /\ pc = "process" /\ ~research["approved"] =>
          blacklist' = Append(blacklist,
                              [product |-> products[i]["name"],
                               trust_score |-> research["trust_score"],
                               reason |-> research["recommendation"]])
    /\ ~(pc = "process" /\ ~research["approved"]) => blacklist' = blacklist

\* C14: each rejected product appends exactly one entry {product,
\* trust_score, reason} to the rejection log and leaves every earlier entry
\* present, unchanged and in order; no other step, the processing of an
\* approved product included, changes the log; after any sequence of runs the
\* log has as many entries as there were rejections.
C14_RejectionLogAppendOnly ==
    /\ [][RejectionLogStep]_vars
    /\ [](/\ Len(blacklist) = Len(Rejections)
          /\ \A k \in 1..Len(blacklist) :
                /\ blacklist[k]["product"] = Rejections[k]["product"]
                /\ blacklist[k]["trust_score"] = Rejections[k]["trust_score"])

\* the second run has rejected the product the first run had rejected, and
\* an approved product was processed in between
C14_Witness ==
    /\ runs = 2
    /\ Len(blacklist) = 2
    /\ blacklist[1]["product"] = blacklist[2]["product"]
    /\ Len(trace) = 3
    /\ trace[2]["approved"]

\* the entries of the results list of the run and of the saved run summary
SummaryEntries ==
    {results[k] : k \in 1..Len(results)} \cup {run_summary[k] : k \in 1..Len(run_summary)}

FallbackText == Strip(Join(world.fallback.chunks))

\* C16: when the watchdog has cut a stream that ran past the timeout, ollama
\* sends the same request again with stream = false before it returns, and
\* what it returns is the answer to that request, never the part of the
\* stream read before the cut.
C16_WatchdogFallsBack ==
    pc = "returned" /\ world.step = "ollama" /\ tripped =>
        /\ Len(calls) = 2
        /\ calls[1].stream /\ ~calls[2].stream
        /\ calls[2] = [calls[1] EXCEPT !.stream = FALSE]
        /\ returned = FallbackText

\* the source URLs written to a used-sources file, in order
Logged(file) == SelectSeq(file, LAMBDA token : token \in Urls)

InLog(s, file) == \E k \in 1..Len(file) : file[k] = s

\* what a call of find_new_links does to the log and what it returns
UsedLogStep ==
    LET call == picked'[Len(picked')]
        fresh == SelectSeq(world.sources, LAMBDA s : ~InLog(s, used_file))
    IN  /\ Len(used_file) <= Len(used_file')
        /\ SubSeq(used_file', 1, Len(used_file)) = used_file
        /\ picked' # picked =>
              /\ Len(call.selected) <= call.limit
              /\ \A k \in 1..Len(call.selected) : ~InLog(call.selected[k], used_file)
              /\ Len(call.selected) <= Len(fresh)
              /\ call.selected = SubSeq(fresh, 1, Len(call.selected))
              /\ Logged(used_file') = Logged(used_file) \o call.selected
        /\ picked' = picked => used_file' = used_file

\* C17: the used-sources log only grows: every call of find_new_links
\* returns at most `limit` sources, all of them absent from the log when the
\* call starts, in the order of the configuration, and appends each of them
\* to the log; after any number of runs no source URL has been returned by
\* the calls of two different runs.
C17_UsedSourcesNeverReselected ==
    /\ [][UsedLogStep]_vars
    /\ [](\A r1, r2 \in 1..Len(picked) :
            r1 # r2 =>
                \A k1 \in 1..Len(picked[r1].selected), k2 \in 1..Len(picked[r2].selected) :
                    picked[r1].selected[k1] # picked[r2].selected[k2])

\* three sources, limit 2 then 2: the first run took the first two, the
\* second run the third, and the third run found nothing new
C17_Witness ==
    /\ Len(picked) = 3
    /\ Cardinality({world.sources[k] : k \in 1..Len(world.sources)}) = 3
    /\ picked[1].selected = SubSeq(world.sources, 1, 2)
    /\ picked[2].limit = 2
    /\ picked[2].selected = <<world.sources[3]>>
    /\ picked[3].limit = 2
    /\ picked[3].selected = <<>>

\* research_product has been entered for some product of the run
Researching ==
    \/ pc \in {"scrape", "reviews", "scam", "evidence", "score", "decide", "process",
               "raised"}
    \/ trace # <<>>
    \/ research_files # {}

\* C18: no product is researched unless the config file loaded,
\* system.enabled is true and the API key is set; when the config does not
\* load the process exits with code 1, when the system is disabled it exits
\* with code 0, and when the key is missing the construction is aborted by a
\* ValueError and run() is never entered.
C18_NoResearchWithoutSetup ==
    /\ Researching => world.config_loads /\ world.enabled /\ world.api_key
    /\ pc # "init" /\ ~world.config_loads => pc = "exited" /\ exited = <<1>>
    /\ pc # "init" /\ world.config_loads /\ ~world.enabled =>
          pc = "exited" /\ exited = <<0>>
    /\ pc # "init" /\ world.config_loads /\ world.enabled /\ ~world.api_key =>
          /\ pc = "aborted"
          /\ exc = "ValueError: OpenAI API key not found in environment variable"
          /\ exited = <<>>

\* the config loaded, the system is enabled, the key is missing: the
\* constructor raised and nothing was researched
C18_Witness ==
    /\ pc = "aborted"
    /\ world.config_loads /\ world.enabled /\ ~world.api_key
    /\ products # <<>>
    /\ trace = <<>> /\ research_files = {} /\ results = <<>>

\* the signals a research record carries, as the scorer reads them
SignalsOf(record) ==
    [pd |-> [red_flags |-> record["red_flags"]], rv |-> record["reviews"],
     sc |-> record["scam_check"], ev |-> record["evidence"]]

SpelledLike(product_name) ==
    CASE product_name \in {<<"k", "e", "t", "o">>, KetoCapitals} -> {Keto, KetoCapitals}
      [] product_name = <<"z", "E", "N">> -> {Zen}
      [] OTHER -> {}

MarkedDisabled(p) == "enabled" \in DOMAIN p /\ p["enabled"] = FALSE

ExpectedSelection ==
    IF world.product_name \in {None, <<>>}
    THEN SelectSeq(world.all_products, LAMBDA p : ~MarkedDisabled(p))
    ELSE SelectSeq(world.all_products,
                   LAMBDA p : p["name"] \in SpelledLike(world.product_name))

Selected == pc # "select"

SlugBody == SubSeq(returned, 3, Len(returned))

\* the letters and digits of a string, in order
LettersAndDigits(s) == SelectSeq(s, LAMBDA c : c \in LowerLetters \cup Digits)

IsPrefix(s, t) == Len(s) <= Len(t) /\ SubSeq(t, 1, Len(s)) = s

\* the bodies of the three titles of posts, by hand
BodyByHand(title) ==
    CASE title = TopFiveTitle ->
            <<"t", "o", "p", "-", "5", "-", "k", "e", "t", "o", "-", "t", "i", "p", "s">>
      [] title = QuotedTitle -> <<"z", "e", "n", "-", "u">>
      [] title = SymbolsTitle -> <<>>

\* C22: for every title _generate_slug returns the UTC date, a hyphen and a
\* body of at most 70 characters, all of them lowercase ASCII letters, digits
\* or hyphens; the letters and digits of the body are those of the lowercased
\* title, in order, all of them when the body is shorter than 70; a hyphen of
\* the body stands for a hyphen or a run of white space of the title, and
\* the body of a title of fewer than 70 characters neither starts nor ends
\* with one.
C22_SlugShape ==
    Returned("slug") =>
        /\ returned[1] = world.today
        /\ returned[2] = "-"
        /\ Len(SlugBody) <= 70
        /\ \A k \in 1..Len(SlugBody) : SlugBody[k] \in LowerLetters \cup Digits \cup {"-"}
        /\ IsPrefix(LettersAndDigits(SlugBody), LettersAndDigits(Lower(world.title)))
        /\ Len(SlugBody) < 70 =>
              LettersAndDigits(SlugBody) = LettersAndDigits(Lower(world.title))
        /\ Cardinality({k \in 1..Len(SlugBody) : SlugBody[k] = "-"})
              <= Cardinality({k \in 1..Len(world.title) :
                                 world.title[k] \in WhiteSpace \cup {"-"}})
        /\ (Len(world.title) < 70 /\ SlugBody # <<>>) =>
              SlugBody[1] # "-" /\ SlugBody[Len(SlugBody)] # "-"
        /\ world.title \in {TopFiveTitle, QuotedTitle, SymbolsTitle} =>
              SlugBody = BodyByHand(world.title)

\* a title whose slug was cut: the body has 70 characters and ends with a
\* hyphen, and letters of the title are missing from it
C22_Witness ==
    /\ Returned("slug")
    /\ Len(SlugBody) = 70
    /\ SlugBody[70] = "-"
    /\ LettersAndDigits(SlugBody) # LettersAndDigits(Lower(world.title))

(***************************************************************************)
(* C23: the link of the affiliate section                                  *)
(***************************************************************************)
\* the hoplinks with the placeholder filled in, by hand
FilledByHand(hoplink, id) ==
    CASE hoplink = KetoHoplink -> <<"https://", id, ".ketoburn.hop.clickbank.net">>
      [] hoplink = TwiceHoplink -> <<"https://hop.example/?a=", id, "&b=", id>>
      [] hoplink = PlainHoplink -> <<"https://plain.example/offer">>

ConfiguredNickname ==
    IF "nickname" \in DOMAIN world.clickbank THEN world.clickbank["nickname"]
    ELSE "YOURNICKNAME"

\* C23: the affiliate section links to the product's manually provided
\* affiliate_link whenever the product carries one, whatever its platform and
\* hoplink; otherwise a clickbank product's section links to its hoplink with
\* every '{id}' replaced by the configured nickname ('YOURNICKNAME' when none
\* is configured), and a product of another platform links to its hoplink,
\* or to '#' when it has none.
C23_ManualLinkFirst ==
    /\ Returned("affiliate") =>
        LET product == world.product
        IN  /\ "affiliate_link" \in DOMAIN product =>
                  returned["href"] = product["affiliate_link"]
            /\ ("affiliate_link" \notin DOMAIN product /\ product["platform"] = "clickbank") =>
                  /\ "hoplink" \in DOMAIN product
                  /\ returned["href"] = FilledByHand(product["hoplink"], ConfiguredNickname)
            /\ ("affiliate_link" \notin DOMAIN product /\ product["platform"] # "clickbank") =>
                  returned["href"] = IF "hoplink" \in DOMAIN product
                                     THEN product["hoplink"] ELSE <<"#">>
    /\ (world.step = "affiliate" /\ pc = "raised") =>
          /\ "affiliate_link" \notin DOMAIN world.product
          /\ "hoplink" \notin DOMAIN world.product
          /\ world.product["platform"] = "clickbank"

\* a clickbank product with a hoplink and a manual link, and a nickname
\* configured: the section carries the manual link
C23_Witness ==
    /\ Returned("affiliate")
    /\ world.product["platform"] = "clickbank"
    /\ "hoplink" \in DOMAIN world.product
    /\ "nickname" \in DOMAIN world.clickbank
    /\ "affiliate_link" \in DOMAIN world.product
    /\ returned["href"] = ManualLink

(***************************************************************************)
(* C30: what _add_backlinks changes                                        *)
(***************************************************************************)
IsLink(piece) == piece \in {LinkText(item["url"]) : item \in BacklinkEvidence}

Links(content) == SelectSeq(content, IsLink)

WithoutLinks(content) == SelectSeq(content, LAMBDA piece : ~IsLink(piece))

\* old occurs in content at position k
OccursAt(old, content, k) ==
    /\ k >= 1
    /\ k + Len(old) - 1 <= Len(content)
    /\ \A j \in 1..Len(old) : content[k + j - 1] = old[j]

Occurs(old, content) == \E k \in 1..(Len(content) + 1) : OccursAt(old, content, k)

\* after is before with one link put right behind the first occurrence of old
LinkedBehindFirst(before, after, old, link) ==
    \E k \in 1..(Len(before) + 1) :
        /\ OccursAt(old, before, k)
        /\ \A m \in 1..(k - 1) : ~OccursAt(old, before, m)
        /\ Len(after) = Len(before) + 1
        /\ SubSeq(after, 1, k + Len(old) - 1) = SubSeq(before, 1, k + Len(old) - 1)
        /\ after[k + Len(old)] = link
        /\ SubSeq(after, k + Len(old) + 1, Len(after))
              = SubSeq(before, k + Len(old), Len(before))

BacklinkStep ==
    (pc = "backlinks_loop" /\ pc' = "backlinks_loop") =>
        LET ev == world.evidence[frame.k]
        IN  \/ /\ ~Occurs(ev["claim"], frame.content)
               /\ frame'.content = frame.content
               /\ frame'.backlink_count = frame.backlink_count
            \/ /\ LinkedBehindFirst(frame.content, frame'.content, ev["claim"],
                                    LinkText(ev["url"]))
               /\ frame'.backlink_count = frame.backlink_count + 1

BacklinksReturned ==
    Returned("backlinks") =>
        /\ Len(Links(returned)) <= Min(world.max_backlinks, Len(world.evidence))
        /\ WithoutLinks(returned) = world.content
        /\ \A link \in {returned[k] : k \in 1..Len(returned)} :
              IsLink(link) => \E k \in 1..Len(world.evidence) :
                                 /\ link = LinkText(world.evidence[k]["url"])
                                 /\ Occurs(world.evidence[k]["claim"], world.content)
        /\ ~world.enabled => returned = world.content
        /\ (\A k \in 1..Len(world.evidence) :
               ~Occurs(world.evidence[k]["claim"], world.content))
              => returned = world.content

\* C30: _add_backlinks inserts at most min(max_backlinks, number of evidence
\* items) links and changes nothing else in the content; every link is put
\* right behind the first occurrence, in the content as it is when the item
\* is reached, of the claim of the evidence item it links to; when backlinks
\* are disabled, or no evidence claim occurs in the content, the content is
\* returned unchanged.
C30_BacklinksOnlyAfterClaims == [][BacklinkStep]_vars /\ []BacklinksReturned

\* two evidence items of the same claim and a limit of two: both links stand
\* behind the first occurrence of the claim, the later one first
C30_Witness ==
    /\ Returned("backlinks")
    /\ world.max_backlinks = 2
    /\ Len(world.evidence) = 3
    /\ returned = Words(<<"it", "boosts", "energy">>)
                    \o <<LinkText("https://nih.example/2"),
                         LinkText("https://pubmed.example/1")>>
                    \o Words(<<"and", "boosts", "energy", "daily">>)

(***************************************************************************)
(* C24: the upper bound of the clamp is never active                       *)
(***************************************************************************)
Total == RawScore(product_data, reviews, scam_check, evidence)

\* C24: the total that _calculate_trust_score has accumulated before
\* clamping never exceeds 100, whatever the signals, so min(100, .) leaves
\* it as it is and the returned score is max(0, total): the score differs
\* from the total only when the total is negative.
C24_TotalAtMost100 ==
    (pc = "score" \/ Scored) =>
        /\ Total <= 100
        /\ Min(100, Total) = Total
        /\ Scored => /\ trust_score = Max(0, Total)
                     /\ trust_score # Total => Total < 0

\* the highest total: three evidence items, a glowing sentiment, no scam
\* report, no red flag, no fake review; the score is the total, 100
C24_Witness ==
    /\ Scored
    /\ Total = 100
    /\ trust_score = 100
    /\ Len(evidence) >= 3
    /\ ~ScamFound

(***************************************************************************)
(* C25: scores under the shipped _web_search                               *)
(***************************************************************************)
\* C25: while every web search returns no results, every research record
\* has no evidence, the neutral review analysis and no scam report, and its
\* trust score is max(0, 65 - 5 * number of red flags): never more than 65,
\* and exactly 60 when the landing-page scrape failed.
C25_ShippedSearchScores ==
    Decided =>
        /\ research["evidence"] = <<>>
        /\ research["reviews"]["sentiment_score"] = 0
        /\ ~research["reviews"]["fake_detected"]
        /\ research["reviews"]["positive"] = <<>>
        /\ research["reviews"]["negative"] = <<>>
        /\ ~research["scam_check"]["scam_reports_found"]
        /\ research["scam_check"]["sources"] = <<>>
        /\ research["trust_score"] = Max(0, 65 - 5 * Len(research["red_flags"]))
        /\ research["trust_score"] <= 65
        /\ research["red_flags"] = <<"Unable to scrape landing page">> =>
              research["trust_score"] = 60

\* the second product of a run: its scrape failed and it scores 60, after a
\* first product with fourteen red flags that scored 0
C25_Witness ==
    /\ Decided
    /\ i = 2
    /\ research["red_flags"] = <<"Unable to scrape landing page">>
    /\ research["trust_score"] = 60
    /\ trace[1]["trust_score"] = 0
    /\ ~trace[1]["raised"]

(***************************************************************************)
(* C26: the recommendation text and the approval                           *)
(***************************************************************************)
Favourable == {HighlyRecommended, Recommended}
Unfavourable == {Caution, NotRecommended}

TextOf(score) == _generate_recommendation(score, TRUE)

\* C26: the recommendation text of a record depends on the trust score
\* alone: _generate_recommendation returns the same text for approved = true
\* and approved = false, and the threshold plays no part.  So a record can be
\* approved with the 'Not recommended' or the 'Proceed with caution' text,
\* which takes a threshold below 60, and rejected with a 'Recommended' text,
\* which takes a threshold above 60.
C26_TextIgnoresApproval ==
    /\ \A score \in 0..100 :
          _generate_recommendation(score, TRUE) = _generate_recommendation(score, FALSE)
    /\ \E score \in 0..100, limit \in 0..59 :
          Approved(score, limit) /\ TextOf(score) = NotRecommended
    /\ \E score \in 0..100, limit \in 0..59 :
          Approved(score, limit) /\ TextOf(score) = Caution
    /\ \E score \in 0..100, limit \in 61..100 :
          ~Approved(score, limit) /\ TextOf(score) \in Favourable
    /\ Decided =>
          /\ research["recommendation"]
                = _generate_recommendation(research["trust_score"], ~research["approved"])
          /\ (research["approved"] /\ research["recommendation"] \in Unfavourable)
                => threshold < 60
          /\ (~research["approved"] /\ research["recommendation"] \in Favourable)
                => threshold > 60

\* a record of score 30 under a threshold of 20: approved, and 'Not
\* recommended'
C26_Witness ==
    /\ Decided
    /\ threshold = 20
    /\ research["trust_score"] = 30
    /\ research["approved"]
    /\ research["recommendation"] = NotRecommended

(***************************************************************************)
(* C27: a link is logged when it is selected, whatever its fetch gives     *)
(***************************************************************************)
\* by hand: the fetch failed, or the text has fewer than 200 words
NoPostDue(outcome) == outcome = [ok |-> FALSE, words |-> 0] \/ outcome.words \in {0, 199}

LogOnlyGrows ==
    /\ Len(used_file') >= Len(used_file)
    /\ SubSeq(used_file', 1, Len(used_file)) = used_file

FetchStep ==
    fetched' # fetched =>
        LET entry == fetched'[Len(fetched')]
        IN  /\ InLog(entry.url, used_file)
            /\ used_file' = used_file
            /\ NoPostDue(entry.outcome) => posts' = posts
            /\ ~NoPostDue(entry.outcome) => posts' = Append(posts, entry.url)

SelectedAreLogged ==
    /\ pc = "fetch" => \A k \in 1..Len(frame.links) : InLog(frame.links[k], used_file)
    /\ \A k \in 1..Len(fetched) :
          /\ InLog(fetched[k].url, used_file)
          /\ \A r \in 1..Len(picked) :
                r > fetched[k].run =>
                    \A j \in 1..Len(picked[r].selected) :
                        picked[r].selected[j] # fetched[k].url
    /\ Len(posts) = Cardinality({k \in 1..Len(fetched) : ~NoPostDue(fetched[k].outcome)})

\* C27: a source is written to the used-sources log when it is selected,
\* before it is fetched; a selected link whose fetch fails or whose text has
\* fewer than 200 words gets no post, stays in the log, and no later run
\* selects it.
C27_LoggedAtSelection == [][LogOnlyGrows /\ FetchStep]_vars /\ []SelectedAreLogged

\* the link of the first run failed to fetch and the link of the second had
\* 199 words: no post, both in the log, and a third run that asks for two
\* links gets none
C27_Witness ==
    /\ Len(picked) = 3
    /\ Len(fetched) = 2
    /\ ~fetched[1].outcome.ok
    /\ fetched[1].run = 1
    /\ fetched[2].outcome.words = 199
    /\ fetched[2].run = 2
    /\ picked[3].limit = 2
    /\ picked[3].selected = <<>>
    /\ posts = <<>>
    /\ pc = "main"

(***************************************************************************)
(* C28: how many URLs recent_from_sitemap returns                          *)
(***************************************************************************)
\* C28: recent_from_sitemap returns at most `limit` URLs for every sitemap,
\* whether the root document is a urlset or a sitemapindex referring to
\* several child sitemaps.
C28_AtMostLimit == Returned("sitemap") => Cardinality(returned) <= world.limit

(***************************************************************************)
(* C29: the source pool that is written back                               *)
(***************************************************************************)
\* the sources of the config without slash and white space, by hand
NormalByHand(u) ==
    CASE u \in {SortedUrls[1], SortedUrls[1] \o <<"/">>} -> SortedUrls[1]
      [] u \in {SortedUrls[2], <<" ">> \o SortedUrls[2]} -> SortedUrls[2]
      [] u = SortedUrls[3] -> SortedUrls[3]

ExistingSet == {NormalByHand(world.sources[k]) : k \in 1..Len(world.sources)}

\* where an existing source stands first in the config
FirstAt(u) ==
    CHOOSE k \in 1..Len(world.sources) :
        /\ NormalByHand(world.sources[k]) = u
        /\ \A j \in 1..(k - 1) : NormalByHand(world.sources[j]) # u

RankOf(u) == CHOOSE k \in DOMAIN SortedUrls : SortedUrls[k] = u

\* u stands before v in the merged pool: existing sources in their order,
\* then the new ones in sorted order
Before(u, v) ==
    IF u \in ExistingSet
    THEN v \notin ExistingSet \/ FirstAt(u) < FirstAt(v)
    ELSE v \notin ExistingSet /\ RankOf(u) < RankOf(v)

PoolSet == {returned[k] : k \in 1..Len(returned)}

Dropped == (ExistingSet \cup world.found) \ PoolSet

NoDuplicate == \A p, q \in 1..Len(returned) : p # q => returned[p] # returned[q]

InMergedOrder == \A p, q \in 1..Len(returned) : p < q => Before(returned[p], returned[q])

DroppedAtFront == \A d \in Dropped, u \in PoolSet : Before(d, u)

====
